---- MODULE Spec2Model ----
(***************************************************************************)
(* Rule engine, contexts, lazy window and streaming driver of the          *)
(* compiler-framework-demo workspace (lexer-framework, parser-framework,   *)
(* pipeline-core, common-framework).                                       *)
(*                                                                         *)
(* Option<T> is modelled as a sequence: None == <<>>, Some(x) == <<x>>.    *)
(***************************************************************************)
EXTENDS Integers, Sequences, FiniteSets, TLC

VARIABLES
    engine,     \* which component the behaviour exercises
    registered, \* the rules as handed to new(), in registration order
    lexer,      \* Lexer { context, rules, ascii_lookup }
    tokens,     \* tokens collected so far by Iterator/collect (tokenize)
    lexDone,    \* the collecting loop has seen Iterator::next return None
    lexCall,    \* the last call made on the lexer, with what it saw
    parser,     \* Parser { context, rules }
    nodes,      \* nodes pushed so far by Parser::parse
    parseDone,  \* Parser::parse has left its loop
    parseCall,  \* the last call made on the parser, with what it saw
    saved,      \* the checkpoints a LazyContext has handed out
    hwm,        \* the highest token index the cursor of a LazyContext has reached
    pc,         \* where StreamingPipeline::run stands
    results,    \* the `results` vector of StreamingPipeline::run
    trace       \* the signals that run() has received and sent, in order

vars == <<engine, registered, lexer, tokens, lexDone, lexCall, parser, nodes, parseDone,
          parseCall, saved, hwm, pc, results, trace>>
lazyVars == <<saved, hwm>>
pipeVars == <<pc, results, trace>>

lexVars == <<lexer, tokens, lexDone, lexCall>>
parseVars == <<parser, nodes, parseDone, parseCall>>

(***************************************************************************)
(* Bounds of the model                                                     *)
(***************************************************************************)
MaxInput == 2
MaxRules == 2
MaxTokens == 2

None == <<>>
Some(x) == <<x>>
Unwrap(o) == o[1]

\* The element of a one-element set.  Only({e(v) : v \in {x}}) is e with v bound
\* to the value of x, computed once.
Only(S) == CHOOSE v \in S : TRUE

Max(a, b) == IF a >= b THEN a ELSE b
Min(a, b) == IF a <= b THEN a ELSE b

RECURSIVE SeqsUpTo(_, _)
SeqsUpTo(S, n) ==
    IF n = 0 THEN {<<>>}
    ELSE LET shorter == SeqsUpTo(S, n - 1)
         IN shorter \cup {Append(s, x) : s \in shorter, x \in S}

(***************************************************************************)
(* Characters: "a" is an ASCII letter, "nl" is '\n', "u2" is a non-ASCII   *)
(* character of UTF-8 length 2.                                            *)
(***************************************************************************)
Chars == {"a", "nl", "u2"}
EOFHint == "eof"   \* the hint Option<char>::None

\* the characters of arithmetic expressions: digits, operators, parentheses
\* and the space
DigitChars == <<"0", "1", "2", "3", "4", "5", "6", "7", "8", "9">>
OpChars == {"+", "-", "*", "/", "(", ")"}
ExprChars == {DigitChars[i] : i \in 1..10} \cup OpChars \cup {" "}

Hints == Chars \cup ExprChars \cup {EOFHint}

is_ascii_digit(ch) == \E i \in 1..10 : DigitChars[i] = ch
is_whitespace(ch) == ch \in {" ", "nl"}

len_utf8(ch) == IF ch = "u2" THEN 2 ELSE 1
is_ascii(ch) == ch # "u2"

(***************************************************************************)
(* common-framework: Position, Checkpoint                                  *)
(***************************************************************************)
PositionNew == [line |-> 1, column |-> 1, offset |-> 0]

CheckpointNew(index, position) == [index |-> index, position |-> position]

(***************************************************************************)
(* lexer-framework: Cursor (the DefaultContext of the lexer)               *)
(***************************************************************************)
RECURSIVE ByteLen(_)
ByteLen(buffer) ==
    IF buffer = <<>> THEN 0 ELSE len_utf8(Head(buffer)) + ByteLen(Tail(buffer))

\* buffer[off..].chars().next(): the char that starts at byte offset off
RECURSIVE CharAtByte(_, _)
CharAtByte(buffer, off) ==
    IF buffer = <<>> THEN None
    ELSE IF off = 0 THEN Some(Head(buffer))
    ELSE CharAtByte(Tail(buffer), off - len_utf8(Head(buffer)))

CursorNew(input) == [buffer |-> input, current |-> 0, position |-> PositionNew]

CursorOffset(c) == c.current

CursorIsEof(c) == c.current >= ByteLen(c.buffer)

CursorPeek(c) == CharAtByte(c.buffer, c.current)

\* a bug: the offset of the position counts characters, not bytes
CursorAdvanceCountingChars(c) ==
    IF CursorIsEof(c) THEN [ch |-> None, ctx |-> c]
    ELSE Only({
        [ch |-> Some(ch),
         ctx |-> [c EXCEPT
            !.position = [line |-> IF ch = "nl" THEN @.line + 1 ELSE @.line,
                          column |-> IF ch = "nl" THEN 1 ELSE @.column + 1,
                          offset |-> @.offset + 1],
            !.current = @ + len_utf8(ch)]]
        : ch \in {Unwrap(CursorPeek(c))}})

CursorAdvance(c) ==
    IF CursorIsEof(c) THEN [ch |-> None, ctx |-> c]
    ELSE Only({
        [ch |-> Some(ch),
         ctx |-> [c EXCEPT
            !.position = [line |-> IF ch = "nl" THEN @.line + 1 ELSE @.line,
                          column |-> IF ch = "nl" THEN 1 ELSE @.column + 1,
                          offset |-> @.offset + len_utf8(ch)],
            !.current = @ + len_utf8(ch)]]
        : ch \in {Unwrap(CursorPeek(c))}})

CursorReset(c) == [c EXCEPT !.current = 0, !.position = PositionNew]

CursorCheckpoint(c) == CheckpointNew(c.current, c.position)

\* a bug: restore that leaves the cursor where the failed rule left it
CursorRestoreNoop(c, checkpoint) == c

\* a bug: restore that puts back the index and leaves the position
CursorRestoreIndexOnly(c, checkpoint) == [c EXCEPT !.current = checkpoint.index]

CursorRestore(c, checkpoint) ==
    [c EXCEPT !.current = checkpoint.index, !.position = checkpoint.position]

\* consume_while: advance while the predicate holds of peek(); the predicate
\* is given as the set of characters it accepts
RECURSIVE CursorConsumeWhile(_, _, _)
CursorConsumeWhile(c, accepted, text) ==
    Only({IF ch = None \/ Unwrap(ch) \notin accepted
          THEN [text |-> text, ctx |-> c]
          ELSE CursorConsumeWhile(CursorAdvance(c).ctx, accepted,
                                  Append(text, Unwrap(ch)))
          : ch \in {CursorPeek(c)}})

RECURSIVE CursorAdvanceBy(_, _)
CursorAdvanceBy(c, n) ==
    IF n = 0 THEN c
    ELSE Only({IF r.ch = None THEN c ELSE CursorAdvanceBy(r.ctx, n - 1)
               : r \in {CursorAdvance(c)}})

\* The hint a rule sees: peek(), with None written EOFHint
HintOf(o) == IF o = None THEN EOFHint ELSE Unwrap(o)

(***************************************************************************)
(* lexer-framework: LexContext over a Cursor (DefaultContext)              *)
(***************************************************************************)
LexContextNew(input) == [kind |-> "default", cursor |-> CursorNew(input)]

LexPosition(ctx) == ctx.cursor.position
LexIsEof(ctx) == CursorIsEof(ctx.cursor)
LexPeek(ctx) == CursorPeek(ctx.cursor)
LexOffset(ctx) == CursorOffset(ctx.cursor)
LexCheckpoint(ctx) == CursorCheckpoint(ctx.cursor)
LexRestore(ctx, checkpoint) ==
    [ctx EXCEPT !.cursor = CursorRestore(ctx.cursor, checkpoint)]
LexAdvanceBy(ctx, n) == [ctx EXCEPT !.cursor = CursorAdvanceBy(ctx.cursor, n)]
LexConsumeWhile(ctx, accepted) ==
    Only({[text |-> r.text, ctx |-> [ctx EXCEPT !.cursor = r.ctx]]
          : r \in {CursorConsumeWhile(ctx.cursor, accepted, <<>>)}})

(***************************************************************************)
(* lexer-framework: StreamingLexContext, fed characters incrementally      *)
(***************************************************************************)
StreamingLexContextNew ==
    [kind |-> "streaming", buffer |-> <<>>, current |-> 0, finished |-> FALSE,
     position |-> PositionNew]

\* From<String>, From<&str>
StreamingLexContextFrom(value) ==
    [kind |-> "streaming", buffer |-> value, current |-> 0, finished |-> TRUE,
     position |-> PositionNew]

\* a bug: a push that leaves `finished` as it was
PushCharKeepsFinished(ctx, ch) == [ctx EXCEPT !.buffer = Append(@, ch)]

PushChar(ctx, ch) == [ctx EXCEPT !.buffer = Append(@, ch), !.finished = FALSE]

PushStr(ctx, str) == [ctx EXCEPT !.buffer = @ \o str, !.finished = FALSE]

LexMarkFinished(ctx) == [ctx EXCEPT !.finished = TRUE]

StreamingLexPeek(ctx) ==
    IF ctx.current >= ByteLen(ctx.buffer) THEN None
    ELSE CharAtByte(ctx.buffer, ctx.current)

StreamingLexAdvance(ctx) ==
    Only({IF ch = None THEN [ch |-> None, ctx |-> ctx]
          ELSE [ch |-> ch,
                ctx |-> [ctx EXCEPT
                   !.current = @ + len_utf8(Unwrap(ch)),
                   !.position =
                       [line |-> IF Unwrap(ch) = "nl" THEN @.line + 1 ELSE @.line,
                        column |-> IF Unwrap(ch) = "nl" THEN 1 ELSE @.column + 1,
                        offset |-> ctx.current + len_utf8(Unwrap(ch))]]]
          : ch \in {StreamingLexPeek(ctx)}})

StreamingLexIsEof(ctx) == ctx.finished /\ ctx.current >= ByteLen(ctx.buffer)

StreamingLexCheckpoint(ctx) == CheckpointNew(ctx.current, ctx.position)

StreamingLexRestore(ctx, checkpoint) ==
    [ctx EXCEPT !.current = checkpoint.index, !.position = checkpoint.position]

(***************************************************************************)
(* lexer-framework: LexingRule.  A rule is described by what its three     *)
(* methods do: priority(), quick_check(first_char) and try_match(ctx).     *)
(* try_match looks at peek(): on a hint in `accept` it takes the position, *)
(* advances `take` chars and returns Some(token); otherwise it advances    *)
(* `scan` chars and returns None.                                          *)
(***************************************************************************)
QcUnknown == [h \in Hints |-> "None"]
QcOnly(S) == [h \in Hints |-> IF h \in S THEN "Some(true)" ELSE "Some(false)"]
QcNever == [h \in Hints |-> "Some(false)"]

\* lexer_test.rs ARule: matches 'a', quick_check Some(first_char == Some('a'))
ARule == [name |-> "A", priority |-> 10, qc |-> QcOnly({"a"}),
          accept |-> {"a"}, take |-> 1, scan |-> 0]
\* error_handling_test.rs NormalRule: any char, default quick_check
NormalRule == [name |-> "Char", priority |-> 10, qc |-> QcUnknown,
               accept |-> Chars, take |-> 1, scan |-> 0]
\* lexer_test.rs EofRule: Some(Eof) when ctx.is_eof()
EofRule == [name |-> "Eof", priority |-> -1, qc |-> QcUnknown,
            accept |-> {EOFHint}, take |-> 0, scan |-> 0]
\* an end-of-input rule with a quick_check and another priority
EndMarkRule == [name |-> "EndMark", priority |-> 7, qc |-> QcOnly({EOFHint}),
                accept |-> {EOFHint}, take |-> 0, scan |-> 0]
\* lexer_test.rs FailingRule: advances, then returns None
FailingRule == [name |-> "Failing", priority |-> 20, qc |-> QcUnknown,
                accept |-> {}, take |-> 0, scan |-> 1]
\* error_handling_test.rs BuggyRule: returns a token without advancing
BuggyRule == [name |-> "Buggy", priority |-> 50, qc |-> QcUnknown,
              accept |-> Chars, take |-> 0, scan |-> 0]
\* a greedy rule of low priority (consume_while): up to two chars
WordRule == [name |-> "Word", priority |-> 1, qc |-> QcOnly({"a"}),
             accept |-> {"a"}, take |-> 2, scan |-> 0]
\* a rule that breaks the quick_check promise: Some(false), yet it matches
UnsoundRule == [name |-> "Unsound", priority |-> 30, qc |-> QcNever,
                accept |-> Chars, take |-> 1, scan |-> 0]

LexRuleUniverse ==
    {ARule, NormalRule, EofRule, EndMarkRule, FailingRule, BuggyRule, WordRule,
     UnsoundRule}

\* quick_check of the expression rules: c.map(|ch| predicate(ch))
QcMap(S) ==
    [h \in Hints |-> IF h = EOFHint THEN "None"
                     ELSE IF h \in S THEN "Some(true)" ELSE "Some(false)"]

\* pipeline_bench.rs: the lexer rules of the expression language.  `matcher`
\* names the try_match of the rule, given by ExprTryMatch below.
WhitespaceRule == [name |-> "Whitespace", priority |-> 0, matcher |-> "Whitespace",
                   qc |-> QcMap({c \in Chars \cup ExprChars : is_whitespace(c)})]
NumberRule == [name |-> "Number", priority |-> 0, matcher |-> "Number",
               qc |-> QcMap({c \in ExprChars : is_ascii_digit(c)})]
OpRule == [name |-> "Op", priority |-> 0, matcher |-> "Op", qc |-> QcMap(OpChars)]

\* str::parse::<i64> of a string of ASCII digits.  The numbers of the inputs
\* of this model are far below i64::MAX, so parse() is Ok.
RECURSIVE ParseDigits(_, _)
ParseDigits(text, acc) ==
    IF text = <<>> THEN acc
    ELSE ParseDigits(Tail(text),
                     10 * acc + (CHOOSE d \in 0..9 : DigitChars[d + 1] = Head(text)))

\* Token of pipeline_bench.rs
NumberTok(n) == [kind |-> "Number", value |-> n]
Tok(kind) == [kind |-> kind]

OpToken(ch) ==
    IF ch = "+" THEN Some(Tok("Plus"))
    ELSE IF ch = "-" THEN Some(Tok("Minus"))
    ELSE IF ch = "*" THEN Some(Tok("Star"))
    ELSE IF ch = "/" THEN Some(Tok("Slash"))
    ELSE IF ch = "(" THEN Some(Tok("LParen"))
    ELSE IF ch = ")" THEN Some(Tok("RParen"))
    ELSE None

ExprTryMatch(rule, ctx) ==
    IF rule.matcher = "Whitespace"
    THEN Only({[tok |-> IF s.text # <<>> THEN Some(Tok("Whitespace")) ELSE None,
                ctx |-> s.ctx]
               : s \in {LexConsumeWhile(ctx, {c \in Chars \cup ExprChars :
                                                 is_whitespace(c)})}})
    ELSE IF rule.matcher = "Number"
    THEN Only({[tok |-> IF s.text # <<>> THEN Some(NumberTok(ParseDigits(s.text, 0)))
                        ELSE None,
                ctx |-> s.ctx]
               : s \in {LexConsumeWhile(ctx, {c \in ExprChars : is_ascii_digit(c)})}})
    ELSE Only({IF ch = None THEN [tok |-> None, ctx |-> ctx]
               ELSE IF OpToken(Unwrap(ch)) = None THEN [tok |-> None, ctx |-> ctx]
               ELSE [tok |-> OpToken(Unwrap(ch)), ctx |-> LexAdvanceBy(ctx, 1)]
               : ch \in {LexPeek(ctx)}})

priority(rule) == rule.priority
quick_check(rule, hint) == rule.qc[hint]

try_match(rule, ctx) ==
    IF "matcher" \in DOMAIN rule THEN ExprTryMatch(rule, ctx)
    ELSE IF HintOf(LexPeek(ctx)) \in rule.accept
    THEN [tok |-> Some([kind |-> rule.name, position |-> LexPosition(ctx)]),
          ctx |-> LexAdvanceBy(ctx, rule.take)]
    ELSE [tok |-> None, ctx |-> LexAdvanceBy(ctx, rule.scan)]

\* quick_check(h) == Some(false) promises that try_match fails on hint h
QuickCheckSound(rule) ==
    \A h \in Hints : rule.qc[h] = "Some(false)" => h \notin rule.accept

(***************************************************************************)
(* sort_by_key(|rule| Reverse(rule.priority())): a stable sort, highest    *)
(* priority first                                                          *)
(***************************************************************************)
RECURSIVE InsertByPriority(_, _)
InsertByPriority(sorted, rule) ==
    IF sorted = <<>> THEN <<rule>>
    ELSE IF priority(Head(sorted)) >= priority(rule)
         THEN <<Head(sorted)>> \o InsertByPriority(Tail(sorted), rule)
         ELSE <<rule>> \o sorted

RECURSIVE SortByPriority(_)
SortByPriority(rules) ==
    IF rules = <<>> THEN <<>>
    ELSE InsertByPriority(SortByPriority(SubSeq(rules, 1, Len(rules) - 1)),
                          rules[Len(rules)])

(***************************************************************************)
(* lexer-framework: Lexer                                                  *)
(***************************************************************************)
RECURSIVE ApplicableIndices(_, _, _)
ApplicableIndices(sorted_rules, ch, idx) ==
    IF idx > Len(sorted_rules) THEN <<>>
    ELSE (IF quick_check(sorted_rules[idx], ch) # "Some(false)"
          THEN <<idx>> ELSE <<>>)
         \o ApplicableIndices(sorted_rules, ch, idx + 1)

AsciiLookup(sorted_rules) ==
    [ch \in {c \in Chars \cup ExprChars : is_ascii(c)} |->
        LET applicable_indices == ApplicableIndices(sorted_rules, ch, 1)
        IN IF applicable_indices # <<>> THEN Some(applicable_indices) ELSE None]

LexerNew(context, rules) ==
    LET sorted_rules == SortByPriority(rules)
    IN [context |-> context,
        rules |-> sorted_rules,
        ascii_lookup |-> AsciiLookup(sorted_rules)]

\* a bug: the next rule is tried where the failed rule stopped
RECURSIVE TryCandidatesFromThere(_, _, _, _, _, _)
TryCandidatesFromThere(rules, candidates, k, ctx, check, tried) ==
    IF k > Len(candidates) THEN [tok |-> None, context |-> ctx, tried |-> tried]
    ELSE IF check /\ quick_check(rules[candidates[k]], HintOf(LexPeek(ctx))) = "Some(false)"
    THEN TryCandidatesFromThere(rules, candidates, k + 1, ctx, check, tried)
    ELSE Only({
        IF m.tok # None
        THEN [tok |-> m.tok, context |-> m.ctx,
              tried |-> Append(tried, [idx |-> candidates[k], context |-> ctx])]
        ELSE TryCandidatesFromThere(rules, candidates, k + 1, m.ctx, check,
                                    Append(tried, [idx |-> candidates[k], context |-> ctx]))
        : m \in {try_match(rules[candidates[k]], ctx)}})

\* The loop body shared by the fast and the slow path: checkpoint, try_match,
\* return on Some, restore on None.  `tried` records, for each rule invoked,
\* its index and the context it was handed.
RECURSIVE TryCandidates(_, _, _, _, _, _)
TryCandidates(rules, candidates, k, ctx, check, tried) ==
    IF k > Len(candidates) THEN [tok |-> None, context |-> ctx, tried |-> tried]
    ELSE IF check /\ quick_check(rules[candidates[k]], HintOf(LexPeek(ctx))) = "Some(false)"
    THEN TryCandidates(rules, candidates, k + 1, ctx, check, tried)
    ELSE Only({
        IF m.tok # None
        THEN [tok |-> m.tok, context |-> m.ctx,
              tried |-> Append(tried, [idx |-> candidates[k], context |-> ctx])]
        ELSE TryCandidates(rules, candidates, k + 1, LexRestore(m.ctx, checkpoint),
                           check, Append(tried, [idx |-> candidates[k], context |-> ctx]))
        : checkpoint \in {LexCheckpoint(ctx)},
          m \in {try_match(rules[candidates[k]], ctx)}})

AllIndices(rules) == [i \in 1..Len(rules) |-> i]

\* Lexer::next_token
NextToken(lx) ==
    IF LexIsEof(lx.context)
    THEN [tok |-> None, context |-> lx.context, tried |-> <<>>]
    ELSE Only({
        IF first_char = None
        THEN [tok |-> None, context |-> lx.context, tried |-> <<>>]
        ELSE IF is_ascii(Unwrap(first_char))
        THEN IF lx.ascii_lookup[Unwrap(first_char)] = None
             THEN [tok |-> None, context |-> lx.context, tried |-> <<>>]
             ELSE TryCandidates(lx.rules, Unwrap(lx.ascii_lookup[Unwrap(first_char)]),
                                1, lx.context, FALSE, <<>>)
        ELSE TryCandidates(lx.rules, AllIndices(lx.rules), 1, lx.context, TRUE, <<>>)
        : first_char \in {LexPeek(lx.context)}})

\* a bug: Iterator::next yielding whatever next_token returned, progress or not
IteratorNextUnchecked(lx) ==
    IF LexIsEof(lx.context)
    THEN [item |-> None, context |-> lx.context, diag |-> "eof", tried |-> <<>>]
    ELSE Only({[item |-> r.tok, context |-> r.context, diag |-> "", tried |-> r.tried]
               : r \in {NextToken(lx)}})

\* a bug: where no rule matches, the character is skipped
IteratorNextSkipping(lx) ==
    IF LexIsEof(lx.context)
    THEN [item |-> None, context |-> lx.context, diag |-> "eof", tried |-> <<>>]
    ELSE Only({
        IF r.tok # None
        THEN IF LexOffset(r.context) = offset_before
             THEN [item |-> None, context |-> r.context,
                   diag |-> "Warning: No progress made", tried |-> r.tried]
             ELSE [item |-> r.tok, context |-> r.context, diag |-> "",
                   tried |-> r.tried]
        ELSE [item |-> None, context |-> LexAdvanceBy(r.context, 1),
              diag |-> "Error: No rule matched", tried |-> r.tried]
        : offset_before \in {LexOffset(lx.context)}, r \in {NextToken(lx)}})

\* Iterator::next for Lexer
IteratorNext(lx) ==
    IF LexIsEof(lx.context)
    THEN [item |-> None, context |-> lx.context, diag |-> "eof", tried |-> <<>>]
    ELSE Only({
        IF r.tok # None
        THEN IF LexOffset(r.context) = offset_before
             THEN [item |-> None, context |-> r.context,
                   diag |-> "Warning: No progress made", tried |-> r.tried]
             ELSE [item |-> r.tok, context |-> r.context, diag |-> "",
                   tried |-> r.tried]
        ELSE IF LexOffset(r.context) = offset_before
             THEN [item |-> None, context |-> r.context,
                   diag |-> "Error: No rule matched", tried |-> r.tried]
             ELSE [item |-> None, context |-> r.context, diag |-> "",
                   tried |-> r.tried]
        : offset_before \in {LexOffset(lx.context)}, r \in {NextToken(lx)}})

(***************************************************************************)
(* src/src/lexer.rs: the lexer without the lookup table and without        *)
(* quick_check                                                             *)
(***************************************************************************)
NaiveNextToken(lx) ==
    TryCandidates(lx.rules, AllIndices(lx.rules), 1, lx.context, FALSE, <<>>)

(***************************************************************************)
(* parser-framework: token contexts.  A context value carries a `kind` tag *)
(* naming its type; the ParseContext trait methods dispatch on it.         *)
(***************************************************************************)
\* extract_position_from_token: returns None for every token type
extract_position_from_token(token) == None

\* DefaultContext<Tok>
DefaultContextNew(toks) ==
    [kind |-> "default",
     tokens |-> toks,
     current |-> 0,
     position |-> IF toks # <<>> /\ extract_position_from_token(toks[1]) # None
                  THEN Unwrap(extract_position_from_token(toks[1]))
                  ELSE PositionNew]

\* Vec::get with a 0-based index
VecGet(v, i) == IF i + 1 \in 1..Len(v) THEN Some(v[i + 1]) ELSE None

DefaultPeek(ctx) == VecGet(ctx.tokens, ctx.current)
DefaultPeekAt(ctx, offset) == VecGet(ctx.tokens, ctx.current + offset)

DefaultAdvance(ctx) ==
    IF ctx.current >= Len(ctx.tokens) THEN [tok |-> None, ctx |-> ctx]
    ELSE Only({
        [tok |-> Some(token),
         ctx |-> [ctx EXCEPT
            !.position = IF new_position # None THEN Unwrap(new_position) ELSE @,
            !.current = @ + 1]]
        : token \in {ctx.tokens[ctx.current + 1]},
          new_position \in {extract_position_from_token(ctx.tokens[ctx.current + 1])}})

\* the position of a peeked token, if there is a token and it has one
PeekedPosition(peeked) ==
    IF peeked # None THEN extract_position_from_token(Unwrap(peeked)) ELSE None

DefaultPosition(ctx) ==
    Only({IF token_position # None THEN Unwrap(token_position) ELSE ctx.position
          : token_position \in {PeekedPosition(DefaultPeek(ctx))}})

DefaultIsEof(ctx) == ctx.current >= Len(ctx.tokens)

DefaultCheckpoint(ctx) == CheckpointNew(ctx.current, ctx.position)

DefaultRestore(ctx, checkpoint) ==
    Only({
        Only({IF token_position # None
              THEN [back EXCEPT !.position = Unwrap(token_position)]
              ELSE back
              : token_position \in {PeekedPosition(DefaultPeek(back))}})
        : back \in {[ctx EXCEPT !.current = checkpoint.index,
                                !.position = checkpoint.position]}})

\* StreamingParseContext<Tok>
StreamingParseContextNew ==
    [kind |-> "streaming", tokens |-> <<>>, current |-> 0, finished |-> FALSE,
     position |-> PositionNew]

StreamingPushToken(ctx, token) ==
    Only({[ctx EXCEPT !.position = IF pos # None THEN Unwrap(pos) ELSE @,
                      !.tokens = Append(@, token),
                      !.finished = FALSE]
          : pos \in {extract_position_from_token(token)}})

StreamingMarkFinished(ctx) == [ctx EXCEPT !.finished = TRUE]

StreamingPeek(ctx) == VecGet(ctx.tokens, ctx.current)
StreamingPeekAt(ctx, offset) == VecGet(ctx.tokens, ctx.current + offset)

StreamingAdvance(ctx) ==
    Only({
        IF got = None THEN [tok |-> None, ctx |-> ctx]
        ELSE [tok |-> got,
              ctx |-> [ctx EXCEPT
                 !.position = IF PeekedPosition(got) # None
                              THEN Unwrap(PeekedPosition(got)) ELSE @,
                 !.current = @ + 1]]
        : got \in {VecGet(ctx.tokens, ctx.current)}})

StreamingIsEof(ctx) == ctx.finished /\ ctx.current >= Len(ctx.tokens)

StreamingCheckpoint(ctx) == CheckpointNew(ctx.current, ctx.position)

StreamingRestore(ctx, checkpoint) ==
    [ctx EXCEPT !.current = checkpoint.index, !.position = checkpoint.position]

(***************************************************************************)
(* parser-framework: LazyContext<I, Tok>.  `iter` holds the items the      *)
(* source has not yielded yet; a panic is recorded in `panicked`.          *)
(***************************************************************************)
LazyContextNew(source, window_size) ==
    [kind |-> "lazy",
     iter |-> source,
     buffer |-> <<>>,
     base_index |-> 0,
     cursor_offset |-> 0,
     position |-> PositionNew,
     window_size |-> window_size,
     committed_index |-> 0,
     panicked |-> ""]

\* VecDeque::pop_front: nothing happens on an empty deque
PopFront(buffer) == IF buffer = <<>> THEN buffer ELSE Tail(buffer)

RECURSIVE PopFrontN(_, _)
PopFrontN(buffer, n) == IF n = 0 THEN buffer ELSE PopFrontN(PopFront(buffer), n - 1)

RECURSIVE ensure_buffer(_, _)
ensure_buffer(ctx, relative_offset) ==
    IF ctx.cursor_offset + relative_offset >= Len(ctx.buffer)
    THEN IF ctx.iter # <<>>
         THEN ensure_buffer([ctx EXCEPT !.buffer = Append(@, Head(ctx.iter)),
                                        !.iter = Tail(@)],
                            relative_offset)
         ELSE [ok |-> FALSE, ctx |-> ctx]
    ELSE [ok |-> TRUE, ctx |-> ctx]

\* a bug: a maybe_prune without its first loop
KeepCommitted(ctx) == ctx

\* a bug: the first loop of maybe_prune without its change of cursor_offset
RECURSIVE DropCommittedKeepingOffset(_)
DropCommittedKeepingOffset(ctx) ==
    IF ctx.base_index < ctx.committed_index
    THEN DropCommittedKeepingOffset([ctx EXCEPT
             !.buffer = PopFront(@),
             !.base_index = @ + 1])
    ELSE ctx

\* the first loop of maybe_prune: drop everything below committed_index
RECURSIVE DropCommitted(_)
DropCommitted(ctx) ==
    IF ctx.base_index < ctx.committed_index
    THEN DropCommitted([ctx EXCEPT
             !.buffer = PopFront(@),
             !.base_index = @ + 1,
             !.cursor_offset = IF @ > 0 THEN @ - 1 ELSE @])
    ELSE ctx

\* a bug: once over the limit, prune up to the cursor and keep no history
PruneAllHistory(ctx) ==
    IF ctx.cursor_offset > ctx.window_size \div 2
    THEN [ctx EXCEPT !.buffer = PopFrontN(@, ctx.cursor_offset),
                     !.base_index = @ + ctx.cursor_offset,
                     !.cursor_offset = 0]
    ELSE ctx

\* a bug: the pruned items are not added to base_index
PruneHistoryLosingBase(ctx) ==
    Only({
        IF ctx.cursor_offset > keep_history
        THEN Only({[ctx EXCEPT !.buffer = PopFrontN(@, prune_count),
                               !.cursor_offset = @ - prune_count]
                   : prune_count \in {ctx.cursor_offset - keep_history}})
        ELSE ctx
        : keep_history \in {ctx.window_size \div 2}})

\* the second half of maybe_prune: keep window_size / 2 items behind the cursor
PruneHistory(ctx) ==
    Only({
        IF ctx.cursor_offset > keep_history
        THEN Only({[ctx EXCEPT !.buffer = PopFrontN(@, prune_count),
                               !.base_index = @ + prune_count,
                               !.cursor_offset = @ - prune_count]
                   : prune_count \in {ctx.cursor_offset - keep_history}})
        ELSE ctx
        : keep_history \in {ctx.window_size \div 2}})

maybe_prune(ctx) == PruneHistory(DropCommitted(ctx))

\* a bug: a peek that finds an item also steps over it
LazyPeekAtConsuming(ctx, offset) ==
    Only({
        IF e.ok
        THEN [tok |-> VecGet(e.ctx.buffer, e.ctx.cursor_offset + offset),
              ctx |-> [e.ctx EXCEPT !.cursor_offset = @ + 1]]
        ELSE [tok |-> None, ctx |-> e.ctx]
        : e \in {ensure_buffer(ctx, offset)}})

token_index(ctx) == ctx.base_index + ctx.cursor_offset

LazyPeekAt(ctx, offset) ==
    Only({
        IF e.ok
        THEN [tok |-> VecGet(e.ctx.buffer, e.ctx.cursor_offset + offset), ctx |-> e.ctx]
        ELSE [tok |-> None, ctx |-> e.ctx]
        : e \in {ensure_buffer(ctx, offset)}})

LazyPeek(ctx) == LazyPeekAt(ctx, 0)

LazyAdvance(ctx) ==
    Only({
        IF e.cursor_offset < Len(e.buffer)
        THEN [tok |-> Some(e.buffer[e.cursor_offset + 1]),
              ctx |-> maybe_prune([e EXCEPT !.cursor_offset = @ + 1])]
        ELSE [tok |-> None, ctx |-> e]
        : e \in {ensure_buffer(ctx, 0).ctx}})

LazyPosition(ctx) == ctx.position

LazyIsEof(ctx) ==
    IF ctx.cursor_offset < Len(ctx.buffer) THEN [eof |-> FALSE, ctx |-> ctx]
    ELSE Only({[eof |-> ~e.ok, ctx |-> e.ctx] : e \in {ensure_buffer(ctx, 0)}})

LazyCheckpoint(ctx) == CheckpointNew(token_index(ctx), ctx.position)

\* a bug: restore without the window check, clamping the offset at the buffer start
LazyRestoreUnchecked(ctx, checkpoint) ==
    [ctx EXCEPT !.cursor_offset = Max(checkpoint.index - ctx.base_index, 0),
                !.position = checkpoint.position]

LazyRestore(ctx, checkpoint) ==
    Only({
        IF target_index < ctx.base_index
        THEN [ctx EXCEPT !.panicked = "LazyContext: Backtracking too far!"]
        ELSE IF target_index - ctx.base_index > Len(ctx.buffer)
        THEN [ctx EXCEPT !.panicked = "LazyContext: Invalid future restore?"]
        ELSE [ctx EXCEPT !.cursor_offset = target_index - ctx.base_index,
                         !.position = checkpoint.position]
        : target_index \in {checkpoint.index}})

\* a bug: commit recording the offset within the buffer, not the absolute index
CommitRelative(ctx) == maybe_prune([ctx EXCEPT !.committed_index = ctx.cursor_offset])

LazyCommit(ctx) ==
    Only({maybe_prune(IF current_index > ctx.committed_index
                      THEN [ctx EXCEPT !.committed_index = current_index]
                      ELSE ctx)
          : current_index \in {token_index(ctx)}})

(***************************************************************************)
(* ParseContext<Tok>: the trait methods, dispatched on the context type.   *)
(* peek, advance and is_eof return the context too, since LazyContext      *)
(* pulls from its source inside them.                                      *)
(***************************************************************************)
CtxPeek(ctx) ==
    IF ctx.kind = "lazy" THEN LazyPeek(ctx)
    ELSE IF ctx.kind = "streaming" THEN [tok |-> StreamingPeek(ctx), ctx |-> ctx]
    ELSE [tok |-> DefaultPeek(ctx), ctx |-> ctx]

CtxAdvance(ctx) ==
    IF ctx.kind = "lazy" THEN LazyAdvance(ctx)
    ELSE IF ctx.kind = "streaming" THEN StreamingAdvance(ctx)
    ELSE DefaultAdvance(ctx)

CtxIsEof(ctx) ==
    IF ctx.kind = "lazy" THEN LazyIsEof(ctx)
    ELSE IF ctx.kind = "streaming" THEN [eof |-> StreamingIsEof(ctx), ctx |-> ctx]
    ELSE [eof |-> DefaultIsEof(ctx), ctx |-> ctx]

CtxPosition(ctx) ==
    IF ctx.kind = "lazy" THEN LazyPosition(ctx)
    ELSE IF ctx.kind = "streaming" THEN ctx.position
    ELSE DefaultPosition(ctx)

CtxTokenIndex(ctx) ==
    IF ctx.kind = "lazy" THEN token_index(ctx) ELSE ctx.current

CtxCheckpoint(ctx) ==
    IF ctx.kind = "lazy" THEN LazyCheckpoint(ctx)
    ELSE IF ctx.kind = "streaming" THEN StreamingCheckpoint(ctx)
    ELSE DefaultCheckpoint(ctx)

CtxRestore(ctx, checkpoint) ==
    IF ctx.kind = "lazy" THEN LazyRestore(ctx, checkpoint)
    ELSE IF ctx.kind = "streaming" THEN StreamingRestore(ctx, checkpoint)
    ELSE DefaultRestore(ctx, checkpoint)

\* a panic unwinds through every caller
CtxPanicked(ctx) == ctx.kind = "lazy" /\ ctx.panicked # ""

\* n calls of advance(), keeping the tokens they return
RECURSIVE CtxAdvanceBy(_, _, _)
CtxAdvanceBy(ctx, n, taken) ==
    IF n = 0 THEN [toks |-> taken, ctx |-> ctx]
    ELSE Only({IF r.tok = None THEN [toks |-> taken, ctx |-> r.ctx]
               ELSE CtxAdvanceBy(r.ctx, n - 1, Append(taken, Unwrap(r.tok)))
               : r \in {CtxAdvance(ctx)}})

(***************************************************************************)
(* parser-framework: the Pratt engine (pratt.rs) and the PrattConfig       *)
(* implementations of the benches.  A config is a record: `name` selects   *)
(* parse_prefix (ExprConfig of pipeline_bench.rs, or ExprParserConfig of   *)
(* batch_bench.rs, which also knows identifiers and calls), `infix` is the *)
(* table infix_op answers from.  Every call returns the context it leaves  *)
(* behind, and two history values: `failed`, whether some parse_prefix or  *)
(* parse_infix in the call tree returned None, and `steps`, the number of  *)
(* parse_pratt calls and loop iterations that went on to consume a token.  *)
(***************************************************************************)
AstNumber(n) == [kind |-> "Number", value |-> n]
Binary(left, op, right) == [kind |-> "Binary", left |-> left, op |-> op, right |-> right]
Var(s) == [kind |-> "Var", name |-> s]
Call(s, args) == [kind |-> "Call", name |-> s, args |-> args]

IdentTok(s) == [kind |-> "Identifier", name |-> s]

\* infix_op of the benches: + and - are (10, 11), * and / are (20, 21)
BenchInfix ==
    [k \in {"Plus", "Minus", "Star", "Slash"} |->
        IF k \in {"Plus", "Minus"} THEN <<10, 11>> ELSE <<20, 21>>]
\* the same operators supplied with left_bp > right_bp, and left_bp = right_bp
RightInfix ==
    [k \in {"Plus", "Minus", "Star", "Slash"} |->
        IF k \in {"Plus", "Minus"} THEN <<11, 10>> ELSE <<21, 20>>]
EqualInfix ==
    [k \in {"Plus", "Minus", "Star", "Slash"} |->
        IF k \in {"Plus", "Minus"} THEN <<10, 10>> ELSE <<20, 20>>]

ExprConfig == [name |-> "ExprConfig", infix |-> BenchInfix]
ExprParserConfig == [name |-> "ExprParserConfig", infix |-> BenchInfix]
PrattConfigs ==
    {ExprConfig, ExprParserConfig,
     [name |-> "ExprConfig", infix |-> RightInfix],
     [name |-> "ExprConfig", infix |-> EqualInfix]}

prefix_op(config, token) ==
    IF token.kind \in {"Number", "LParen"}
       \/ (config.name = "ExprParserConfig" /\ token.kind = "Identifier")
    THEN Some(0) ELSE None

infix_op(config, token) ==
    IF token.kind \in DOMAIN config.infix THEN Some(config.infix[token.kind]) ELSE None

PrattFail(ctx, steps) == [ast |-> None, ctx |-> ctx, failed |-> TRUE, steps |-> steps]

\* a bug: the closing parenthesis is recognised and left in the input
ExpectRParenKept(ctx, expr, failed, steps) ==
    Only({IF p.tok # None /\ Unwrap(p.tok).kind = "RParen"
          THEN [ast |-> Some(expr), ctx |-> p.ctx, failed |-> failed, steps |-> steps]
          ELSE PrattFail(p.ctx, steps)
          : p \in {CtxPeek(ctx)}})

\* the end of a parenthesis: `if peek() is RParen { advance(); Some(expr) }
\* else { None }`
ExpectRParen(ctx, expr, failed, steps) ==
    Only({IF p.tok # None /\ Unwrap(p.tok).kind = "RParen"
          THEN [ast |-> Some(expr), ctx |-> CtxAdvance(p.ctx).ctx,
                failed |-> failed, steps |-> steps]
          ELSE PrattFail(p.ctx, steps)
          : p \in {CtxPeek(ctx)}})

InfixChar(token) ==
    IF token.kind = "Plus" THEN Some("+")
    ELSE IF token.kind = "Minus" THEN Some("-")
    ELSE IF token.kind = "Star" THEN Some("*")
    ELSE IF token.kind = "Slash" THEN Some("/")
    ELSE None

RECURSIVE parse_pratt(_, _, _)
RECURSIVE PrattLoopTighter(_, _, _, _, _, _)
RECURSIVE PrattLoop(_, _, _, _, _, _)

\* ExprParserConfig::parse_prefix on an identifier: a call when `(` follows
IdentPrefix(config, token, ctx) ==
    Only({IF p.tok # None /\ Unwrap(p.tok).kind = "LParen"
          THEN Only({ExpectRParen(arg.ctx,
                                  Call(token.name,
                                       IF arg.ast # None THEN <<Unwrap(arg.ast)>>
                                       ELSE <<>>),
                                  arg.failed, arg.steps)
                     : arg \in {parse_pratt(CtxAdvance(p.ctx).ctx, config, 0)}})
          ELSE [ast |-> Some(Var(token.name)), ctx |-> p.ctx, failed |-> FALSE,
                steps |-> 0]
          : p \in {CtxPeek(ctx)}})

parse_prefix(config, token, ctx) ==
    IF token.kind = "Number"
    THEN [ast |-> Some(AstNumber(token.value)), ctx |-> ctx, failed |-> FALSE,
          steps |-> 0]
    ELSE IF token.kind = "Identifier" /\ config.name = "ExprParserConfig"
    THEN IdentPrefix(config, token, ctx)
    ELSE IF token.kind = "LParen"
    THEN Only({IF expr.ast = None THEN PrattFail(expr.ctx, expr.steps)
               ELSE ExpectRParen(expr.ctx, Unwrap(expr.ast), expr.failed, expr.steps)
               : expr \in {parse_pratt(ctx, config, 0)}})
    ELSE PrattFail(ctx, 0)

parse_infix(config, left, token, r_bp, ctx) ==
    IF InfixChar(token) = None THEN PrattFail(ctx, 0)
    ELSE Only({IF right.ast = None THEN PrattFail(right.ctx, right.steps)
               ELSE [ast |-> Some(Binary(left, Unwrap(InfixChar(token)),
                                         Unwrap(right.ast))),
                     ctx |-> right.ctx, failed |-> right.failed,
                     steps |-> right.steps]
               : right \in {parse_pratt(ctx, config, r_bp)}})

\* one more iteration of the loop, after `let op = ctx.advance().unwrap()`
PrattInfixStep(op, config, min_bp, left, failed, steps, r_bp) ==
    Only({IF new_left.ast = None
          THEN PrattFail(new_left.ctx, steps + 1 + new_left.steps)
          ELSE PrattLoop(new_left.ctx, config, min_bp, Unwrap(new_left.ast),
                         failed \/ new_left.failed, steps + 1 + new_left.steps)
          : new_left \in {parse_infix(config, left, Unwrap(op.tok), r_bp, op.ctx)}})

\* a bug: the loop never compares l_bp with min_bp
PrattLoopGreedy(ctx, config, min_bp, left, failed, steps) ==
    Only({IF p.tok = None \/ infix_op(config, Unwrap(p.tok)) = None
          THEN [ast |-> Some(left), ctx |-> p.ctx, failed |-> failed, steps |-> steps]
          ELSE PrattInfixStep(CtxAdvance(p.ctx), config, min_bp, left, failed, steps,
                              Unwrap(infix_op(config, Unwrap(p.tok)))[2])
          : p \in {CtxPeek(ctx)}})

\* a bug: the right operand is parsed at l_bp
PrattLoopLeftBp(ctx, config, min_bp, left, failed, steps) ==
    Only({IF p.tok = None \/ infix_op(config, Unwrap(p.tok)) = None
          THEN [ast |-> Some(left), ctx |-> p.ctx, failed |-> failed, steps |-> steps]
          ELSE IF Unwrap(infix_op(config, Unwrap(p.tok)))[1] < min_bp
          THEN [ast |-> Some(left), ctx |-> p.ctx, failed |-> failed, steps |-> steps]
          ELSE PrattInfixStep(CtxAdvance(p.ctx), config, min_bp, left, failed, steps,
                              Unwrap(infix_op(config, Unwrap(p.tok)))[1])
          : p \in {CtxPeek(ctx)}})

\* a bug: the loop stops on `l_bp <= min_bp`
PrattLoopTighter(ctx, config, min_bp, left, failed, steps) ==
    Only({IF p.tok = None \/ infix_op(config, Unwrap(p.tok)) = None
          THEN [ast |-> Some(left), ctx |-> p.ctx, failed |-> failed, steps |-> steps]
          ELSE IF Unwrap(infix_op(config, Unwrap(p.tok)))[1] <= min_bp
          THEN [ast |-> Some(left), ctx |-> p.ctx, failed |-> failed, steps |-> steps]
          ELSE PrattInfixStep(CtxAdvance(p.ctx), config, min_bp, left, failed, steps,
                              Unwrap(infix_op(config, Unwrap(p.tok)))[2])
          : p \in {CtxPeek(ctx)}})

\* the loop of parse_pratt
PrattLoop(ctx, config, min_bp, left, failed, steps) ==
    Only({IF p.tok = None \/ infix_op(config, Unwrap(p.tok)) = None
          THEN [ast |-> Some(left), ctx |-> p.ctx, failed |-> failed, steps |-> steps]
          ELSE IF Unwrap(infix_op(config, Unwrap(p.tok)))[1] < min_bp
          THEN [ast |-> Some(left), ctx |-> p.ctx, failed |-> failed, steps |-> steps]
          ELSE PrattInfixStep(CtxAdvance(p.ctx), config, min_bp, left, failed, steps,
                              Unwrap(infix_op(config, Unwrap(p.tok)))[2])
          : p \in {CtxPeek(ctx)}})

parse_pratt(ctx, config, min_bp) ==
    Only({IF p.tok = None
          THEN [ast |-> None, ctx |-> p.ctx, failed |-> FALSE, steps |-> 0]
          ELSE Only({IF left.ast = None THEN PrattFail(left.ctx, 1 + left.steps)
                     ELSE PrattLoop(left.ctx, config, min_bp, Unwrap(left.ast),
                                    left.failed, 1 + left.steps)
                     : left \in {parse_prefix(config, Unwrap(p.tok),
                                              CtxAdvance(p.ctx).ctx)}})
          : p \in {CtxPeek(ctx)}})

(***************************************************************************)
(* parser-framework: ParsingRule, described like a LexingRule: priority(), *)
(* quick_check(current_token) and try_parse(ctx).  The hint is the kind of *)
(* the current token.                                                      *)
(***************************************************************************)
TokenKinds == {r.name : r \in LexRuleUniverse}
\* the token kinds of the expression benches
ExprTokenKinds ==
    {"Number", "Identifier", "Plus", "Minus", "Star", "Slash", "LParen", "RParen",
     "Whitespace"}
ParseHints == TokenKinds \cup ExprTokenKinds \cup {EOFHint}

PQcUnknown == [h \in ParseHints |-> "None"]
PQcOnly(S) == [h \in ParseHints |-> IF h \in S THEN "Some(true)" ELSE "Some(false)"]
PQcNever == [h \in ParseHints |-> "Some(false)"]

\* one node per "A" token, with a quick_check
ItemRule == [name |-> "Item", priority |-> 10, qc |-> PQcOnly({"A"}),
             accept |-> {"A"}, take |-> 1, scan |-> 0]
\* one node per token of any kind, default quick_check
AnyRule == [name |-> "Any", priority |-> 10, qc |-> PQcUnknown,
            accept |-> TokenKinds, take |-> 1, scan |-> 0]
\* a rule over several tokens (as an expression rule): up to two tokens
PairRule == [name |-> "Pair", priority |-> 5, qc |-> PQcOnly({"A"}),
             accept |-> {"A"}, take |-> 2, scan |-> 0]
\* advances, then fails
BacktrackRule == [name |-> "Backtrack", priority |-> 20, qc |-> PQcUnknown,
                  accept |-> {}, take |-> 0, scan |-> 2]
\* returns a node without consuming a token
StuckRule == [name |-> "Stuck", priority |-> 3, qc |-> PQcUnknown,
              accept |-> {"Char"}, take |-> 0, scan |-> 0]
\* breaks the quick_check promise
UnsoundParseRule == [name |-> "UnsoundP", priority |-> 30, qc |-> PQcNever,
                     accept |-> TokenKinds, take |-> 1, scan |-> 0]
\* matches when no token is left
EndRule == [name |-> "End", priority |-> 7, qc |-> PQcOnly({EOFHint}),
            accept |-> {EOFHint}, take |-> 0, scan |-> 0]

ParseRuleUniverse ==
    {ItemRule, AnyRule, PairRule, BacktrackRule, StuckRule, UnsoundParseRule, EndRule}

ParseHintOf(o) == IF o = None THEN EOFHint ELSE Unwrap(o).kind

parse_quick_check(rule, current_token) == rule.qc[ParseHintOf(current_token)]

\* ExprRule of pipeline_bench.rs and ExpressionRule of batch_bench.rs:
\* try_parse is parse_pratt at min_bp 0
ExprRule(config) ==
    [name |-> "Expr", priority |-> 0, config |-> config,
     qc |-> PQcOnly(IF config.name = "ExprParserConfig"
                    THEN {"Number", "Identifier", "LParen"}
                    ELSE {"Number", "LParen"})]

try_parse(rule, ctx) ==
    IF "config" \in DOMAIN rule
    THEN Only({[node |-> r.ast, ctx |-> r.ctx] : r \in {parse_pratt(ctx, rule.config, 0)}})
    ELSE Only({
        Only({IF matched
              THEN [node |-> Some([kind |-> rule.name, tokens |-> a.toks]),
                    ctx |-> a.ctx]
              ELSE [node |-> None, ctx |-> a.ctx]
              : a \in {CtxAdvanceBy(p.ctx, IF matched THEN rule.take ELSE rule.scan,
                                    <<>>)}})
        : p \in {CtxPeek(ctx)}, matched \in {ParseHintOf(CtxPeek(ctx).tok) \in rule.accept}})

ParseQuickCheckSound(rule) ==
    \A h \in ParseHints : rule.qc[h] = "Some(false)" => h \notin rule.accept

(***************************************************************************)
(* parser-framework: Parser                                                *)
(***************************************************************************)
ParserNew(context, rules) ==
    [context |-> context, rules |-> SortByPriority(rules)]

\* a bug: a rule is skipped unless its quick_check says Some(true)
SkipsUnlessTrue(rule, current_token) ==
    parse_quick_check(rule, current_token) # "Some(true)"

\* `if let Some(false) = rule.quick_check(current_token.as_ref()) { continue; }`
Skips(rule, current_token) ==
    parse_quick_check(rule, current_token) = "Some(false)"

\* the rule of S whose try_parse leaves the cursor furthest (the last such rule)
SetMaxBy(S, rules, ctx) ==
    CHOOSE k \in S : \A j \in S :
       \/ CtxTokenIndex(try_parse(rules[k], ctx).ctx) > CtxTokenIndex(try_parse(rules[j], ctx).ctx)
       \/ /\ CtxTokenIndex(try_parse(rules[k], ctx).ctx)
                = CtxTokenIndex(try_parse(rules[j], ctx).ctx)
          /\ k >= j

\* the for loop of next_node, from rule k on; skip == TRUE honours quick_check
RECURSIVE TryRules(_, _, _, _, _, _)
TryRules(rules, k, ctx, current_token, skip, tried) ==
    IF k > Len(rules) THEN [node |-> None, context |-> ctx, tried |-> tried]
    ELSE IF skip /\ Skips(rules[k], current_token)
    THEN TryRules(rules, k + 1, ctx, current_token, skip, tried)
    ELSE Only({
        IF m.node # None
        THEN [node |-> m.node, context |-> m.ctx, tried |-> seen]
        ELSE Only({IF CtxPanicked(back)
                   THEN [node |-> None, context |-> back, tried |-> seen]
                   ELSE TryRules(rules, k + 1, back, current_token, skip, seen)
                   : back \in {CtxRestore(m.ctx, checkpoint)}})
        : checkpoint \in {CtxCheckpoint(ctx)},
          m \in {try_parse(rules[k], ctx)},
          seen \in {Append(tried, [idx |-> k, context |-> ctx])}})

\* a bug: longest match, the matching rule that consumes most wins
NextNodeLongest(p) ==
    Only({
        IF wins = {} THEN TryRules(p.rules, 1, peeked.ctx, peeked.tok, TRUE, <<>>)
        ELSE Only({[node |-> m.node, context |-> m.ctx,
                    tried |-> [i \in 1..Len(p.rules) |-> [idx |-> i, context |-> peeked.ctx]]]
                   : m \in {try_parse(p.rules[SetMaxBy(wins, p.rules, peeked.ctx)],
                                      peeked.ctx)}})
        : peeked \in {CtxPeek(p.context)},
          wins \in {{k \in 1..Len(p.rules) : try_parse(p.rules[k], p.context).node # None}}})

\* Parser::next_node
NextNode(p) ==
    Only({TryRules(p.rules, 1, peeked.ctx, peeked.tok, TRUE, <<>>)
          : peeked \in {CtxPeek(p.context)}})

\* the same scan with quick_check ignored
NextNodeAllRules(p) ==
    Only({TryRules(p.rules, 1, peeked.ctx, peeked.tok, FALSE, <<>>)
          : peeked \in {CtxPeek(p.context)}})

\* One turn of the while loop of Parser::parse.  `stop` says the loop is left.
ParseTurn(p) ==
    Only({
        IF e.eof
        THEN [push |-> None, context |-> e.ctx, stop |-> TRUE, diag |-> "eof",
              tried |-> <<>>]
        ELSE Only({
            IF CtxPanicked(r.context)
            THEN [push |-> None, context |-> r.context, stop |-> TRUE,
                  diag |-> "panic", tried |-> r.tried]
            ELSE IF r.node # None
            THEN IF CtxTokenIndex(r.context) = offset_before
                 THEN [push |-> None, context |-> r.context, stop |-> TRUE,
                       diag |-> "Warning: No progress made", tried |-> r.tried]
                 ELSE [push |-> r.node, context |-> r.context, stop |-> FALSE,
                       diag |-> "", tried |-> r.tried]
            ELSE IF CtxTokenIndex(r.context) = offset_before
                 THEN [push |-> None, context |-> r.context, stop |-> TRUE,
                       diag |-> "Error: No rule matched", tried |-> r.tried]
                 ELSE [push |-> None, context |-> r.context, stop |-> FALSE,
                       diag |-> "", tried |-> r.tried]
            : offset_before \in {CtxTokenIndex(e.ctx)},
              r \in {NextNode([p EXCEPT !.context = e.ctx])}})
        : e \in {CtxIsEof(p.context)}})

(***************************************************************************)
(* Spec: the rule engine.  A behaviour builds one Lexer over an input      *)
(* string or one Parser over a token vector, and then calls next_token /   *)
(* next_node and the collecting loops on it.                               *)
(***************************************************************************)
LexInputs == SeqsUpTo(Chars, MaxInput)
LexRuleLists == SeqsUpTo(LexRuleUniverse, MaxRules)

ParseTokenKinds == {"A", "Char"}
ParseInputs ==
    SeqsUpTo({[kind |-> k, position |-> PositionNew] : k \in ParseTokenKinds}, MaxTokens)
ParseRuleLists == SeqsUpTo(ParseRuleUniverse, MaxRules)

LexCallNew(lx) ==
    [op |-> "new", before |-> lx.context, result |-> None, after |-> lx.context,
     tried |-> <<>>, collected |-> 0, diag |-> ""]

ParseCallNew(p) ==
    [op |-> "new", before |-> p.context, result |-> None, after |-> p.context,
     tried |-> <<>>, collected |-> 0, diag |-> ""]

IdleLexer == LexerNew(LexContextNew(<<>>), <<>>)
IdleParser == ParserNew(DefaultContextNew(<<>>), <<>>)
IdleLazy == saved = {} /\ hwm = 0
IdlePipeline == pc = "idle" /\ results = <<>> /\ trace = <<>>

InitLexer ==
    /\ engine = "lexer"
    /\ \E input \in LexInputs, rules \in LexRuleLists :
          /\ registered = rules
          /\ lexer = LexerNew(LexContextNew(input), rules)
          /\ lexCall = LexCallNew(LexerNew(LexContextNew(input), rules))
    /\ tokens = <<>>
    /\ lexDone = FALSE
    /\ parser = IdleParser
    /\ nodes = <<>>
    /\ parseDone = FALSE
    /\ parseCall = ParseCallNew(IdleParser)
    /\ IdleLazy
    /\ IdlePipeline

InitParser ==
    /\ engine = "parser"
    /\ \E toks \in ParseInputs, rules \in ParseRuleLists :
          /\ registered = rules
          /\ parser = ParserNew(DefaultContextNew(toks), rules)
          /\ parseCall = ParseCallNew(ParserNew(DefaultContextNew(toks), rules))
    /\ nodes = <<>>
    /\ parseDone = FALSE
    /\ lexer = IdleLexer
    /\ tokens = <<>>
    /\ lexDone = FALSE
    /\ lexCall = LexCallNew(IdleLexer)
    /\ IdleLazy
    /\ IdlePipeline

Init == InitLexer \/ InitParser

\* a caller invokes Lexer::next_token
LexNextToken ==
    /\ engine = "lexer"
    /\ \E r \in {NextToken(lexer)} :
          /\ lexer' = [lexer EXCEPT !.context = r.context]
          /\ lexCall' = [op |-> "next_token", before |-> lexer.context,
                         result |-> r.tok, after |-> r.context, tried |-> r.tried,
                         collected |-> Len(tokens), diag |-> ""]
    /\ UNCHANGED <<engine, registered, tokens, lexDone, parseVars, lazyVars, pipeVars>>

\* one turn of collect() in Lexer::tokenize: Iterator::next, then push or stop
LexCollect ==
    /\ engine = "lexer"
    /\ ~lexDone
    /\ \E r \in {IteratorNext(lexer)} :
          /\ lexer' = [lexer EXCEPT !.context = r.context]
          /\ tokens' = IF r.item # None THEN Append(tokens, Unwrap(r.item)) ELSE tokens
          /\ lexDone' = (r.item = None)
          /\ lexCall' = [op |-> "next", before |-> lexer.context,
                         result |-> r.item, after |-> r.context, tried |-> r.tried,
                         collected |-> Len(tokens), diag |-> r.diag]
    /\ UNCHANGED <<engine, registered, parseVars, lazyVars, pipeVars>>

\* a caller invokes Parser::next_node (parse_one)
ParseNextNode ==
    /\ engine = "parser"
    /\ \E r \in {NextNode(parser)} :
          /\ parser' = [parser EXCEPT !.context = r.context]
          /\ parseCall' = [op |-> "next_node", before |-> parser.context,
                           result |-> r.node, after |-> r.context, tried |-> r.tried,
                           collected |-> Len(nodes), diag |-> ""]
    /\ UNCHANGED <<engine, registered, nodes, parseDone, lexVars, lazyVars, pipeVars>>

\* one turn of the loop of Parser::parse
ParseLoop ==
    /\ engine = "parser"
    /\ ~parseDone
    /\ \E r \in {ParseTurn(parser)} :
          /\ parser' = [parser EXCEPT !.context = r.context]
          /\ nodes' = IF r.push # None THEN Append(nodes, Unwrap(r.push)) ELSE nodes
          /\ parseDone' = r.stop
          /\ parseCall' = [op |-> "parse", before |-> parser.context,
                           result |-> r.push, after |-> r.context, tried |-> r.tried,
                           collected |-> Len(nodes), diag |-> r.diag]
    /\ UNCHANGED <<engine, registered, lexVars, lazyVars, pipeVars>>

Next == LexNextToken \/ LexCollect \/ ParseNextNode \/ ParseLoop

Spec == Init /\ [][Next]_vars

(***************************************************************************)
(* Claims on the rule engine (checked under Spec)                          *)
(***************************************************************************)
LexerAt(ctx) == [lexer EXCEPT !.context = ctx]
ParserAt(ctx) == [parser EXCEPT !.context = ctx]

LexSameScanState(c1, c2) ==
    LexOffset(c1) = LexOffset(c2) /\ LexPosition(c1) = LexPosition(c2)

ParseSameScanState(c1, c2) ==
    CtxTokenIndex(c1) = CtxTokenIndex(c2) /\ CtxPosition(c1) = CtxPosition(c2)

LexEngineCalled == engine = "lexer" /\ lexCall.op \in {"next_token", "next"}
ParseEngineCalled == engine = "parser" /\ parseCall.op \in {"next_node", "parse"}

\* C1: in next_token and next_node every rule that is tried is handed the
\* context with the index and position it had when the call began (so each
\* rule that returned None, even after advancing, was undone), and when the
\* call returns None the caller finds index and position as before the call.
C1_RestoreOnNone ==
    /\ LexEngineCalled =>
          /\ \A i \in 1..Len(lexCall.tried) :
                LexSameScanState(lexCall.tried[i].context, lexCall.before)
          /\ lexCall.result = None => LexSameScanState(lexCall.after, lexCall.before)
    /\ ParseEngineCalled =>
          /\ \A i \in 1..Len(parseCall.tried) :
                ParseSameScanState(parseCall.tried[i].context, parseCall.before)
          /\ parseCall.result = None =>
                ParseSameScanState(parseCall.after, parseCall.before)

\* a rule that advanced and then returned None was followed by another rule
C1_Witness ==
    \/ /\ LexEngineCalled
       /\ \E i \in 1..Len(lexCall.tried) :
            /\ i < Len(lexCall.tried)
            /\ \E m \in {try_match(lexer.rules[lexCall.tried[i].idx],
                                   lexCall.tried[i].context)} :
                  m.tok = None /\ LexOffset(m.ctx) > LexOffset(lexCall.before)
    \/ /\ ParseEngineCalled
       /\ parseCall.result = None
       /\ \E i \in 1..Len(parseCall.tried) :
            \E m \in {try_parse(parser.rules[parseCall.tried[i].idx],
                                parseCall.tried[i].context)} :
                  m.node = None
                  /\ CtxTokenIndex(m.ctx) > CtxTokenIndex(parseCall.before)

\* A rule can match at a context when its quick_check does not rule it out
\* and its try_match / try_parse returns Some there.
LexCanMatch(rule, ctx) ==
    /\ quick_check(rule, HintOf(LexPeek(ctx))) # "Some(false)"
    /\ try_match(rule, ctx).tok # None

ParseCanMatch(rule, ctx) ==
    /\ parse_quick_check(rule, CtxPeek(ctx).tok) # "Some(false)"
    /\ try_parse(rule, ctx).node # None

LexMatching(ctx) == {i \in 1..Len(lexer.rules) : LexCanMatch(lexer.rules[i], ctx)}
ParseMatching(ctx) == {i \in 1..Len(parser.rules) : ParseCanMatch(parser.rules[i], ctx)}

\* C2: when two rules of different priority can both match where the call
\* begins, next_token / next_node returns the output of a matching rule of
\* the highest priority, whatever the registration order was.
C2_HigherPriorityWins ==
    /\ (engine = "lexer" /\ lexCall.op = "next_token") =>
          \A i, j \in LexMatching(lexCall.before) :
             priority(lexer.rules[i]) > priority(lexer.rules[j]) =>
                \E w \in LexMatching(lexCall.before) :
                   /\ \A o \in LexMatching(lexCall.before) :
                         priority(lexer.rules[w]) >= priority(lexer.rules[o])
                   /\ lexCall.result = try_match(lexer.rules[w], lexCall.before).tok
    /\ (engine = "parser" /\ parseCall.op = "next_node") =>
          \A i, j \in ParseMatching(parseCall.before) :
             priority(parser.rules[i]) > priority(parser.rules[j]) =>
                \E w \in ParseMatching(parseCall.before) :
                   /\ \A o \in ParseMatching(parseCall.before) :
                         priority(parser.rules[w]) >= priority(parser.rules[o])
                   /\ parseCall.result = try_parse(parser.rules[w], parseCall.before).node

\* C3: the collecting loops (Iterator::next under collect/tokenize, and
\* Parser::parse) push an output only when the index strictly advanced; when
\* a rule returned an output without advancing, nothing is pushed, the
\* warning is printed and the loop is left.
C3_NoZeroProgressOutput ==
    /\ (engine = "lexer" /\ lexCall.op = "next") =>
          /\ Len(tokens) > lexCall.collected =>
                LexOffset(lexCall.after) > LexOffset(lexCall.before)
          /\ \A r \in {NextToken(LexerAt(lexCall.before))} :
                (r.tok # None /\ LexOffset(r.context) = LexOffset(lexCall.before)) =>
                   /\ Len(tokens) = lexCall.collected
                   /\ lexDone
                   /\ lexCall.diag = "Warning: No progress made"
    /\ (engine = "parser" /\ parseCall.op = "parse") =>
          /\ Len(nodes) > parseCall.collected =>
                CtxTokenIndex(parseCall.after) > CtxTokenIndex(parseCall.before)
          /\ \A r \in {NextNode(ParserAt(parseCall.before))} :
                (/\ ~DefaultIsEof(parseCall.before)
                 /\ r.node # None
                 /\ CtxTokenIndex(r.context) = CtxTokenIndex(parseCall.before)) =>
                   /\ Len(nodes) = parseCall.collected
                   /\ parseDone
                   /\ parseCall.diag = "Warning: No progress made"

\* a collecting loop met a rule that returned an output without advancing,
\* after it had already collected something
C3_Witness ==
    \/ /\ engine = "lexer" /\ lexCall.op = "next" /\ Len(tokens) > 0
       /\ NextToken(LexerAt(lexCall.before)).tok # None
       /\ lexCall.diag = "Warning: No progress made"
    \/ /\ engine = "parser" /\ parseCall.op = "parse" /\ Len(nodes) > 0
       /\ NextNode(ParserAt(parseCall.before)).node # None
       /\ parseCall.diag = "Warning: No progress made"

\* C9: with sound quick_checks, next_token of the lexer with the ASCII
\* lookup table returns what the naive lexer (every rule in priority order,
\* checkpoint/restore, no quick_check) returns from the same context, and
\* leaves the context in the same state.
C9_TableEqualsNaive ==
    (/\ engine = "lexer" /\ lexCall.op = "next_token"
     /\ \A i \in 1..Len(lexer.rules) : QuickCheckSound(lexer.rules[i])) =>
        \A n \in {NaiveNextToken(LexerAt(lexCall.before))} :
           lexCall.result = n.tok /\ lexCall.after = n.context

\* C10: with sound quick_checks, next_node returns the node, and leaves the
\* context, that the scan trying every rule in priority order without
\* consulting quick_check would.
C10_QuickCheckTransparent ==
    (/\ engine = "parser" /\ parseCall.op = "next_node"
     /\ \A i \in 1..Len(parser.rules) : ParseQuickCheckSound(parser.rules[i])) =>
        \A n \in {NextNodeAllRules(ParserAt(parseCall.before))} :
           parseCall.result = n.node /\ parseCall.after = n.context

\* next_node skipped a rule on its quick_check and a later rule returned a node
C10_Witness ==
    /\ engine = "parser" /\ parseCall.op = "next_node"
    /\ \A i \in 1..Len(parser.rules) : ParseQuickCheckSound(parser.rules[i])
    /\ parseCall.result # None
    /\ Len(parseCall.tried) < Len(NextNodeAllRules(ParserAt(parseCall.before)).tried)

TriedIndices(call) == {call.tried[i].idx : i \in 1..Len(call.tried)}

\* C11: when next_token / next_node returns an output, it is the output of
\* the last rule the call invoked; every rule invoked before it returned
\* None; the rules are invoked in priority order; and every rule that stands
\* before the winner in that order was either invoked (and failed) or was
\* excluded by its quick_check.  So the first success ends the call, however
\* much a later rule would have consumed.
C11_FirstMatchWins ==
    /\ (engine = "lexer" /\ lexCall.op = "next_token" /\ lexCall.result # None) =>
          /\ lexCall.tried # <<>>
          /\ \E w \in {lexCall.tried[Len(lexCall.tried)].idx} :
                /\ \A m \in {try_match(lexer.rules[w], lexCall.before)} :
                      lexCall.result = m.tok /\ lexCall.after = m.ctx
                /\ \A k \in 1..(w - 1) :
                      /\ priority(lexer.rules[k]) >= priority(lexer.rules[w])
                      /\ \/ k \in TriedIndices(lexCall)
                         \/ quick_check(lexer.rules[k], HintOf(LexPeek(lexCall.before)))
                               = "Some(false)"
          /\ \A i \in 1..(Len(lexCall.tried) - 1) :
                /\ lexCall.tried[i].idx < lexCall.tried[i + 1].idx
                /\ try_match(lexer.rules[lexCall.tried[i].idx], lexCall.before).tok = None
    /\ (engine = "parser" /\ parseCall.op = "next_node" /\ parseCall.result # None) =>
          /\ parseCall.tried # <<>>
          /\ \E w \in {parseCall.tried[Len(parseCall.tried)].idx} :
                /\ \A m \in {try_parse(parser.rules[w], parseCall.before)} :
                      parseCall.result = m.node /\ parseCall.after = m.ctx
                /\ \A k \in 1..(w - 1) :
                      /\ priority(parser.rules[k]) >= priority(parser.rules[w])
                      /\ \/ k \in TriedIndices(parseCall)
                         \/ Skips(parser.rules[k], CtxPeek(parseCall.before).tok)
          /\ \A i \in 1..(Len(parseCall.tried) - 1) :
                /\ parseCall.tried[i].idx < parseCall.tried[i + 1].idx
                /\ try_parse(parser.rules[parseCall.tried[i].idx], parseCall.before).node
                      = None

\* the call returned the first match although a rule later in priority order
\* would have matched a longer stretch from the same place
C11_Witness ==
    \/ /\ engine = "lexer" /\ lexCall.op = "next_token" /\ lexCall.result # None
       /\ \E j \in 1..Len(lexer.rules) :
            /\ j > lexCall.tried[Len(lexCall.tried)].idx
            /\ try_match(lexer.rules[j], lexCall.before).tok # None
            /\ LexOffset(try_match(lexer.rules[j], lexCall.before).ctx)
                  > LexOffset(lexCall.after)
    \/ /\ engine = "parser" /\ parseCall.op = "next_node" /\ parseCall.result # None
       /\ \E j \in 1..Len(parser.rules) :
            /\ j > parseCall.tried[Len(parseCall.tried)].idx
            /\ try_parse(parser.rules[j], parseCall.before).node # None
            /\ CtxTokenIndex(try_parse(parser.rules[j], parseCall.before).ctx)
                  > CtxTokenIndex(parseCall.after)

\* C18: Lexer::next_token called at end of input still tries the rules:
\* when some rule matches there (an EOF rule), a rule is invoked and a
\* token returned, after the last character as well as on empty input.
C18_EofRuleStillRuns ==
    (/\ engine = "lexer" /\ lexCall.op = "next_token"
     /\ LexIsEof(lexCall.before)
     /\ \E i \in 1..Len(lexer.rules) :
           try_match(lexer.rules[i], lexCall.before).tok # None) =>
        /\ lexCall.tried # <<>>
        /\ lexCall.result # None

\* one step of the lexer engine from a place where no rule matches
C23LexStep ==
    (engine = "lexer" /\ ~LexIsEof(lexer.context) /\ LexMatching(lexer.context) = {}
     /\ lexCall' # lexCall) =>
       /\ lexCall'.result = None
       /\ LexSameScanState(lexer'.context, lexer.context)
       /\ tokens' = tokens
       /\ lexCall'.op = "next" =>
             lexDone' /\ lexCall'.diag = "Error: No rule matched"

C23ParseStep ==
    (engine = "parser" /\ ~DefaultIsEof(parser.context)
     /\ ParseMatching(parser.context) = {} /\ parseCall' # parseCall) =>
       /\ parseCall'.result = None
       /\ ParseSameScanState(parser'.context, parser.context)
       /\ nodes' = nodes
       /\ parseCall'.op = "parse" =>
             parseDone' /\ parseCall'.diag = "Error: No rule matched"

\* C23: when no rule matches and the context is not at end of input,
\* next_token / next_node returns None with index and position unchanged,
\* and the collecting loop (collect over Iterator::next, Parser::parse)
\* stops there with exactly the outputs it had: once stopped, the collected
\* outputs never change.
C23_StopsWhereNoRuleMatches ==
    [][/\ C23LexStep
       /\ C23ParseStep
       /\ lexDone => (lexDone' /\ tokens' = tokens)
       /\ parseDone => (parseDone' /\ nodes' = nodes)]_vars

\* a collecting loop stopped before the end of the input, where no rule
\* matches, after it had collected an output
C23_Witness ==
    \/ /\ engine = "lexer" /\ lexCall.op = "next" /\ lexDone
       /\ lexCall.collected >= 1
       /\ ~LexIsEof(lexCall.before)
       /\ LexMatching(lexCall.before) = {}
    \/ /\ engine = "parser" /\ parseCall.op = "parse" /\ parseDone
       /\ parseCall.collected >= 1
       /\ ~DefaultIsEof(parseCall.before)
       /\ ParseMatching(parseCall.before) = {}

\* the byte offset at which a collected token begins
SpanStart(token) == token.position.offset

\* Iterator::next pushed a token in this step
LexPushed == engine = "lexer" /\ lexCall'.op = "next" /\ tokens' # tokens

\* C24: the tokens of a collecting run come in input order with strict
\* progress: a token is appended to those collected before, it begins where
\* the lexer stood, which is where the previous accepted match ended (offset
\* 0 for the first call on a new lexer), and it ends at a strictly greater
\* offset; so the spans are contiguous, do not overlap and start at strictly
\* increasing offsets.
C24_ContiguousSpans ==
    [][LexPushed =>
          /\ tokens' = Append(tokens, Unwrap(lexCall'.result))
          /\ SpanStart(Unwrap(lexCall'.result)) = LexOffset(lexer.context)
          /\ LexOffset(lexer'.context) > SpanStart(Unwrap(lexCall'.result))
          /\ (lexCall.op = "next" /\ Len(tokens) > lexCall.collected) =>
                SpanStart(Unwrap(lexCall'.result)) = LexOffset(lexCall.after)
          /\ lexCall.op = "new" => SpanStart(Unwrap(lexCall'.result)) = 0
          /\ \A k \in 1..(Len(tokens') - 1) :
                SpanStart(tokens'[k]) < SpanStart(tokens'[k + 1])]_vars

\* two tokens were collected one after the other, the first of them two
\* bytes long
C24_Witness ==
    /\ engine = "lexer" /\ lexCall.op = "next"
    /\ Len(tokens) = 2
    /\ lexCall.collected = 1
    /\ SpanStart(tokens[1]) = 0
    /\ SpanStart(tokens[2]) = 2
    /\ LexOffset(lexer.context) > 2

\* sorted is the registered list in descending priority, rules of equal
\* priority in the order of registration
StablySorted(sorted, reg) ==
    /\ Len(sorted) = Len(reg)
    /\ \E f \in [1..Len(reg) -> 1..Len(reg)] :
          /\ \A k, l \in 1..Len(reg) : k # l => f[k] # f[l]
          /\ \A k \in 1..Len(reg) : sorted[k] = reg[f[k]]
          /\ \A k, l \in 1..Len(reg) :
                k < l => \/ priority(sorted[k]) > priority(sorted[l])
                         \/ priority(sorted[k]) = priority(sorted[l]) /\ f[k] < f[l]

TriedInOrder(tried) ==
    \A k, l \in 1..Len(tried) : k < l => tried[k].idx < tried[l].idx

\* the registered rules that can match at ctx and have the highest priority
\* among those that can
LexTopMatching(ctx) ==
    {i \in 1..Len(registered) :
        /\ LexCanMatch(registered[i], ctx)
        /\ \A o \in 1..Len(registered) :
              LexCanMatch(registered[o], ctx) =>
                 priority(registered[o]) <= priority(registered[i])}

ParseTopMatching(ctx) ==
    {i \in 1..Len(registered) :
        /\ ParseCanMatch(registered[i], ctx)
        /\ \A o \in 1..Len(registered) :
              ParseCanMatch(registered[o], ctx) =>
                 priority(registered[o]) <= priority(registered[i])}

\* the smallest element of a non-empty set of indices
First(S) == CHOOSE i \in S : \A o \in S : i <= o

\* C25: the rules of a lexer or parser are the registered rules stably
\* sorted by descending priority, the same list at every call; within a call
\* the rules are tried in that order, so equal-priority rules in the order of
\* registration; and when two or more rules of equal priority can match and
\* none of higher priority can, next_token / next_node returns the output of
\* the one registered first.
C25_StableRuleOrder ==
    /\ engine = "lexer" =>
          /\ StablySorted(lexer.rules, registered)
          /\ LexEngineCalled => TriedInOrder(lexCall.tried)
          /\ (lexCall.op = "next_token"
              /\ Cardinality(LexTopMatching(lexCall.before)) >= 2) =>
                lexCall.result =
                   try_match(registered[First(LexTopMatching(lexCall.before))],
                             lexCall.before).tok
    /\ engine = "parser" =>
          /\ StablySorted(parser.rules, registered)
          /\ ParseEngineCalled => TriedInOrder(parseCall.tried)
          /\ (parseCall.op = "next_node"
              /\ Cardinality(ParseTopMatching(parseCall.before)) >= 2) =>
                parseCall.result =
                   try_parse(registered[First(ParseTopMatching(parseCall.before))],
                             parseCall.before).node

\* the rules whose quick_check does not answer Some(false) to the lookahead
\* of the context
LexApplicable(ctx) ==
    {i \in 1..Len(lexer.rules) :
        quick_check(lexer.rules[i], HintOf(LexPeek(ctx))) # "Some(false)"}

\* C37: in a call of next_token, no rule whose quick_check answers
\* Some(false) to the current lookahead is invoked; every rule whose
\* quick_check answers None or Some(true) is tried, in the order of the
\* sorted list, unless an earlier one has returned a token; and when every
\* rule answers Some(false), next_token returns None and leaves the context
\* as it was.
C37_QuickCheckDecidesTried ==
    (engine = "lexer" /\ lexCall.op = "next_token") =>
       \E applicable \in {LexApplicable(lexCall.before)} :
          /\ TriedIndices(lexCall) \subseteq applicable
          /\ \A i \in applicable :
                \/ i \in TriedIndices(lexCall)
                \/ \E j \in TriedIndices(lexCall) :
                      j < i /\ try_match(lexer.rules[j], lexCall.before).tok # None
          /\ \A i \in 1..(Len(lexCall.tried) - 1) :
                lexCall.tried[i].idx < lexCall.tried[i + 1].idx
          /\ applicable = {} =>
                lexCall.result = None /\ lexCall.after = lexCall.before

(***************************************************************************)
(* SpecPratt: the Pratt engine.  A behaviour either takes a token vector   *)
(* and a PrattConfig and calls parse_pratt and Parser::next_node on it, or *)
(* runs the batch pipeline of pipeline_bench.rs over an input string:      *)
(* Lexer::tokenize, the whitespace filter, Parser::from_tokens and         *)
(* Parser::parse with ExprRule.                                            *)
(***************************************************************************)
MaxExpr == 5

\* the token vector of a sequence of kinds: the k-th number is Number(k)
RECURSIVE Numbered(_, _)
Numbered(kinds, count) ==
    IF kinds = <<>> THEN <<>>
    ELSE IF Head(kinds) = "Number"
    THEN <<NumberTok(count + 1)>> \o Numbered(Tail(kinds), count + 1)
    ELSE IF Head(kinds) = "Identifier"
    THEN <<IdentTok("f")>> \o Numbered(Tail(kinds), count)
    ELSE <<Tok(Head(kinds))>> \o Numbered(Tail(kinds), count)

PrattKinds(config) ==
    {"Number", "Plus", "Minus", "Star", "LParen", "RParen"}
    \cup (IF config.name = "ExprParserConfig" THEN {"Identifier"} ELSE {})

PrattInputs(config) == {Numbered(ks, 0) : ks \in SeqsUpTo(PrattKinds(config), MaxExpr)}

\* the min_bp of a call: the top level, and the right operand of + and of *
MinBps == {0, 11, 21}

\* "3 + 4 * (2 - 1) / 5" of the pipeline demo, "1+2*3", "1-2-3"
DemoInput ==
    <<"3", " ", "+", " ", "4", " ", "*", " ", "(", "2", " ", "-", " ", "1", ")",
      " ", "/", " ", "5">>
ExprInputs ==
    {DemoInput, <<"1", "+", "2", "*", "3">>, <<"1", "-", "2", "-", "3">>}
    \cup SeqsUpTo({"1", "2", "+", "*", "(", ")", " ", "a"}, MaxInput)

ExprLexerRules == <<WhitespaceRule, NumberRule, OpRule>>

\* tokens.into_iter().filter(|t| !matches!(t, Token::Whitespace)).collect()
FilterWhitespace(toks) == SelectSeq(toks, LAMBDA t : t.kind # "Whitespace")

InitPratt ==
    /\ engine = "pratt"
    /\ \E config \in PrattConfigs :
          \E toks \in PrattInputs(config) :
              /\ registered = <<ExprRule(config)>>
              /\ parser = ParserNew(DefaultContextNew(toks), <<ExprRule(config)>>)
              /\ parseCall = ParseCallNew(ParserNew(DefaultContextNew(toks),
                                                    <<ExprRule(config)>>))
    /\ nodes = <<>>
    /\ parseDone = FALSE
    /\ lexer = IdleLexer
    /\ tokens = <<>>
    /\ lexDone = FALSE
    /\ lexCall = LexCallNew(IdleLexer)
    /\ IdleLazy
    /\ IdlePipeline

InitExprBatch ==
    /\ engine = "expr_batch"
    /\ registered = <<ExprRule(ExprConfig)>>
    /\ \E input \in ExprInputs :
          /\ lexer = LexerNew(LexContextNew(input), ExprLexerRules)
          /\ lexCall = LexCallNew(LexerNew(LexContextNew(input), ExprLexerRules))
    /\ tokens = <<>>
    /\ lexDone = FALSE
    /\ parser = IdleParser
    /\ nodes = <<>>
    /\ parseDone = FALSE
    /\ parseCall = [op |-> "waiting"]
    /\ IdleLazy
    /\ IdlePipeline

\* a caller invokes parse_pratt(ctx, &config, min_bp) on the fresh context
PrattParse ==
    /\ engine = "pratt"
    /\ parseCall.op = "new"
    /\ \E min_bp \in MinBps :
          \E r \in {parse_pratt(parser.context, registered[1].config, min_bp)} :
              /\ parser' = [parser EXCEPT !.context = r.ctx]
              /\ parseCall' = [op |-> "parse_pratt", min_bp |-> min_bp,
                               before |-> parser.context, result |-> r.ast,
                               after |-> r.ctx, failed |-> r.failed,
                               steps |-> r.steps]
    /\ UNCHANGED <<engine, registered, nodes, parseDone, lexVars, lazyVars, pipeVars>>

\* a caller invokes Parser::next_node on the fresh parser with ExprRule
PrattNextNode ==
    /\ engine = "pratt"
    /\ parseCall.op = "new"
    /\ \E r \in {NextNode(parser)} :
          /\ parser' = [parser EXCEPT !.context = r.context]
          /\ parseCall' = [op |-> "next_node", before |-> parser.context,
                           result |-> r.node, after |-> r.context, tried |-> r.tried,
                           collected |-> Len(nodes), diag |-> ""]
    /\ UNCHANGED <<engine, registered, nodes, parseDone, lexVars, lazyVars, pipeVars>>

\* one turn of collect() in Lexer::tokenize
ExprTokenize ==
    /\ engine = "expr_batch"
    /\ ~lexDone
    /\ \E r \in {IteratorNext(lexer)} :
          /\ lexer' = [lexer EXCEPT !.context = r.context]
          /\ tokens' = IF r.item # None THEN Append(tokens, Unwrap(r.item)) ELSE tokens
          /\ lexDone' = (r.item = None)
          /\ lexCall' = [op |-> "next", before |-> lexer.context,
                         result |-> r.item, after |-> r.context, tried |-> r.tried,
                         collected |-> Len(tokens), diag |-> r.diag]
    /\ UNCHANGED <<engine, registered, parseVars, lazyVars, pipeVars>>

\* the closure handed to the batch pipeline: filter, then Parser::from_tokens
ExprFromTokens ==
    /\ engine = "expr_batch"
    /\ lexDone
    /\ parseCall.op = "waiting"
    /\ \E p \in {ParserNew(DefaultContextNew(FilterWhitespace(tokens)), registered)} :
          /\ parser' = p
          /\ parseCall' = ParseCallNew(p)
    /\ UNCHANGED <<engine, registered, nodes, parseDone, lexVars, lazyVars, pipeVars>>

\* one turn of the loop of Parser::parse
ExprParseTurn ==
    /\ engine = "expr_batch"
    /\ parseCall.op # "waiting"
    /\ ~parseDone
    /\ \E r \in {ParseTurn(parser)} :
          /\ parser' = [parser EXCEPT !.context = r.context]
          /\ nodes' = IF r.push # None THEN Append(nodes, Unwrap(r.push)) ELSE nodes
          /\ parseDone' = r.stop
          /\ parseCall' = [op |-> "parse", before |-> parser.context,
                           result |-> r.push, after |-> r.context, tried |-> r.tried,
                           collected |-> Len(nodes), diag |-> r.diag]
    /\ UNCHANGED <<engine, registered, lexVars, lazyVars, pipeVars>>

NextPratt ==
    PrattParse \/ PrattNextNode \/ ExprTokenize \/ ExprFromTokens \/ ExprParseTurn

SpecPratt == (InitPratt \/ InitExprBatch) /\ [][NextPratt]_vars

(***************************************************************************)
(* Claims on the Pratt engine (checked under SpecPratt)                    *)
(***************************************************************************)
PrattCalled == engine = "pratt" /\ parseCall.op = "parse_pratt"
PrattConfigOf == registered[1].config
PrattTokens == parser.context.tokens

\* left_bp of a token that infix_op knows
LeftBp(config, token) == Unwrap(infix_op(config, token))[1]
RightBp(config, token) == Unwrap(infix_op(config, token))[2]

\* the token vector  1 op 2 op' 3
Chain(op1, op2) == Numbered(<<"Number", op1, "Number", op2, "Number">>, 0)
OpChar(kind) == Unwrap(InfixChar(Tok(kind)))

\* the operators consumed by the loop of the call that built `ast`, when
\* the input has no parenthesis: those on the left spine of the tree
RECURSIVE LeftSpineOps(_)
LeftSpineOps(ast) ==
    IF ast.kind = "Binary" THEN {ast.op} \cup LeftSpineOps(ast.left) ELSE {}

\* C12: with + as (10,11) and * as (20,21), parse_pratt at min_bp 0 turns
\* 1 + 2 * 3 into Binary(+, 1, Binary(*, 2, 3)); and a call leaves an infix
\* operator whose left_bp is below its min_bp unconsumed: the call stops in
\* front of it, and consumes in its own loop only operators with
\* left_bp >= min_bp.
C12_TighterBindsFirst ==
    PrattCalled =>
        /\ (PrattConfigOf.infix = BenchInfix /\ PrattTokens = Chain("Plus", "Star")
            /\ parseCall.min_bp = 0) =>
              parseCall.result =
                  Some(Binary(AstNumber(1), "+",
                              Binary(AstNumber(2), "*", AstNumber(3))))
        /\ (/\ Len(PrattTokens) >= 2
            /\ PrattTokens[1].kind = "Number"
            /\ infix_op(PrattConfigOf, PrattTokens[2]) # None
            /\ LeftBp(PrattConfigOf, PrattTokens[2]) < parseCall.min_bp) =>
              /\ parseCall.result = Some(AstNumber(1))
              /\ CtxTokenIndex(parseCall.after) = 1
        /\ (/\ parseCall.result # None
            /\ \A i \in 1..Len(PrattTokens) :
                  PrattTokens[i].kind \notin {"LParen", "RParen"}) =>
              \A k \in DOMAIN PrattConfigOf.infix :
                  OpChar(k) \in LeftSpineOps(Unwrap(parseCall.result)) =>
                      PrattConfigOf.infix[k][1] >= parseCall.min_bp

C12_Witness ==
    /\ PrattCalled
    /\ PrattConfigOf = ExprConfig
    /\ PrattTokens = Chain("Plus", "Star")
    /\ parseCall.min_bp = 0
    /\ parseCall.result =
          Some(Binary(AstNumber(1), "+", Binary(AstNumber(2), "*", AstNumber(3))))
    /\ CtxTokenIndex(parseCall.after) = 5

\* C13: an operator supplied with left_bp < right_bp is left-associative:
\* a call at a min_bp that lets the operator in turns  1 op 2 op 3  into
\* Binary(op, Binary(op, 1, 2), 3); so 1 - 2 - 3 with - as (10,11).
C13_LeftAssociative ==
    PrattCalled =>
        \A k \in DOMAIN PrattConfigOf.infix :
            (/\ PrattConfigOf.infix[k][1] < PrattConfigOf.infix[k][2]
             /\ PrattTokens = Chain(k, k)
             /\ parseCall.min_bp <= PrattConfigOf.infix[k][1]) =>
                parseCall.result =
                    Some(Binary(Binary(AstNumber(1), OpChar(k), AstNumber(2)),
                                OpChar(k), AstNumber(3)))

C13_Witness ==
    /\ PrattCalled
    /\ PrattConfigOf.infix["Minus"] = <<10, 11>>
    /\ PrattTokens = Chain("Minus", "Minus")
    /\ parseCall.result =
          Some(Binary(Binary(AstNumber(1), "-", AstNumber(2)), "-", AstNumber(3)))

\* C14: an operator supplied with left_bp >= right_bp, left_bp = right_bp
\* included, is right-associative: a call at a min_bp that lets the
\* operator in turns  1 op 2 op 3  into Binary(op, 1, Binary(op, 2, 3)).
C14_RightAssociative ==
    PrattCalled =>
        \A k \in DOMAIN PrattConfigOf.infix :
            (/\ PrattConfigOf.infix[k][1] >= PrattConfigOf.infix[k][2]
             /\ PrattTokens = Chain(k, k)
             /\ parseCall.min_bp <= PrattConfigOf.infix[k][1]) =>
                parseCall.result =
                    Some(Binary(AstNumber(1), OpChar(k),
                                Binary(AstNumber(2), OpChar(k), AstNumber(3))))

C14_Witness ==
    /\ PrattCalled
    /\ PrattConfigOf.infix["Plus"] = <<10, 10>>
    /\ PrattTokens = Chain("Plus", "Plus")
    /\ parseCall.result =
          Some(Binary(AstNumber(1), "+", Binary(AstNumber(2), "+", AstNumber(3))))

ExprBatchOn(input) == engine = "expr_batch" /\ lexer.context.cursor.buffer = input

\* C15: the batch pipeline with the Pratt rule turns "3 + 4 * (2 - 1) / 5"
\* into the eleven tokens 3 + 4 * ( 2 - 1 ) / 5 once whitespace is dropped,
\* and those into exactly one tree,
\* Binary(+, 3, Binary(/, Binary(*, 4, Binary(-, 2, 1)), 5)).
C15_DemoExpressionTree ==
    ExprBatchOn(DemoInput) =>
        /\ lexDone =>
              FilterWhitespace(tokens) =
                  <<NumberTok(3), Tok("Plus"), NumberTok(4), Tok("Star"), Tok("LParen"),
                    NumberTok(2), Tok("Minus"), NumberTok(1), Tok("RParen"),
                    Tok("Slash"), NumberTok(5)>>
        /\ parseDone =>
              nodes =
                  <<Binary(AstNumber(3), "+",
                           Binary(Binary(AstNumber(4), "*",
                                         Binary(AstNumber(2), "-", AstNumber(1))),
                                  "/", AstNumber(5)))>>

C15_Witness ==
    /\ ExprBatchOn(DemoInput)
    /\ parseDone
    /\ Len(nodes) = 1
    /\ nodes[1].kind = "Binary" /\ nodes[1].op = "+"
    /\ nodes[1].right.kind = "Binary" /\ nodes[1].right.op = "/"
    /\ CtxTokenIndex(parser.context) = 11

\* the tokens a call consumed
PrattConsumed == CtxTokenIndex(parseCall.after) - CtxTokenIndex(parseCall.before)

\* C16: parse_pratt terminates, since every call that finds a token and
\* every loop iteration that finds an operator consumes it: the calls and
\* iterations of a parse are at most the tokens it consumed; and when a
\* parse_prefix or parse_infix at any level returned None, the top-level
\* call returns None.
C16_TerminatesAndFailsWhole ==
    PrattCalled =>
        /\ parseCall.steps <= PrattConsumed
        /\ PrattConsumed <= Len(PrattTokens)
        /\ parseCall.failed => parseCall.result = None

(***************************************************************************)
(* A Parser over a LazyContext whose caller also uses the context directly *)
(* (peek_at, advance, is_eof, checkpoint, restore, commit).  A panic ends  *)
(* the program: nothing runs after it.                                     *)
(***************************************************************************)
MaxSource == 3
MaxWindow == 3
MaxPeek == 1

LazySources ==
    SeqsUpTo({[kind |-> k, position |-> PositionNew] : k \in ParseTokenKinds}, MaxSource)
LazyRuleLists == {<<BacktrackRule, AnyRule>>, <<PairRule, ItemRule>>, <<AnyRule>>}

SetMax(S) == CHOOSE x \in S : \A y \in S : x >= y

\* the furthest index a rule attempt of next_node took the cursor to
RuleReach(rules, tried) ==
    SetMax({0} \cup {CtxTokenIndex(try_parse(rules[tried[i].idx], tried[i].context).ctx)
                     : i \in 1..Len(tried)})

InitLazy ==
    /\ engine = "lazy"
    /\ \E source \in LazySources, window_size \in 0..MaxWindow, rules \in LazyRuleLists :
          /\ registered = rules
          /\ parser = ParserNew(LazyContextNew(source, window_size), rules)
          /\ parseCall = [ParseCallNew(ParserNew(LazyContextNew(source, window_size),
                                                 rules))
                          EXCEPT !.collected = None]
    /\ nodes = <<>>
    /\ parseDone = FALSE
    /\ lexer = IdleLexer
    /\ tokens = <<>>
    /\ lexDone = FALSE
    /\ lexCall = LexCallNew(IdleLexer)
    /\ saved = {}
    /\ hwm = 0
    /\ IdlePipeline

LazyRunning == engine = "lazy" /\ ~CtxPanicked(parser.context)

\* the state change common to the calls on the context; `collected` holds the
\* argument of the call, if it has one
LazyCalled(op, arg, result, after, tried) ==
    /\ parser' = [parser EXCEPT !.context = after]
    /\ parseCall' = [op |-> op, before |-> parser.context, result |-> result,
                     after |-> after, tried |-> tried, collected |-> arg, diag |-> ""]
    /\ hwm' = SetMax({hwm, CtxTokenIndex(after), RuleReach(parser.rules, tried)})
    /\ UNCHANGED <<engine, registered, nodes, parseDone, lexVars, pipeVars>>

DoPeekAt ==
    /\ LazyRunning
    /\ \E offset \in 0..MaxPeek : \E r \in {LazyPeekAt(parser.context, offset)} :
          LazyCalled("peek_at", Some(offset), r.tok, r.ctx, <<>>)
    /\ UNCHANGED saved

DoAdvance ==
    /\ LazyRunning
    /\ \E r \in {LazyAdvance(parser.context)} :
          LazyCalled("advance", None, r.tok, r.ctx, <<>>)
    /\ UNCHANGED saved

DoIsEof ==
    /\ LazyRunning
    /\ \E r \in {LazyIsEof(parser.context)} :
          LazyCalled("is_eof", None, Some(r.eof), r.ctx, <<>>)
    /\ UNCHANGED saved

DoCheckpoint ==
    /\ LazyRunning
    /\ LazyCalled("checkpoint", None, Some(LazyCheckpoint(parser.context)),
                  parser.context, <<>>)
    /\ saved' = saved \cup {LazyCheckpoint(parser.context)}

DoRestore ==
    /\ LazyRunning
    /\ \E checkpoint \in saved :
          LazyCalled("restore", Some(checkpoint), None,
                     LazyRestore(parser.context, checkpoint), <<>>)
    /\ UNCHANGED saved

DoCommit ==
    /\ LazyRunning
    /\ LazyCalled("commit", None, None, LazyCommit(parser.context), <<>>)
    /\ UNCHANGED saved

DoNextNode ==
    /\ LazyRunning
    /\ \E r \in {NextNode(parser)} :
          LazyCalled("next_node", None, r.node, r.context, r.tried)
    /\ UNCHANGED saved

NextLazy ==
    DoPeekAt \/ DoAdvance \/ DoIsEof \/ DoCheckpoint \/ DoRestore \/ DoCommit
    \/ DoNextNode

SpecLazy == InitLazy /\ [][NextLazy]_vars

(***************************************************************************)
(* Claims on LazyContext (checked under SpecLazy)                          *)
(***************************************************************************)
LazyCtx == parser.context
KeepHistory == LazyCtx.window_size \div 2
RestorePanics(ctx, checkpoint) == LazyRestore(ctx, checkpoint).panicked # ""

\* C6 as stated: every checkpoint the context handed out whose index is at
\* most W/2 behind the current cursor index, and which no commit has passed,
\* can be restored without the fatal error.
C6_RestorableBehindCursor ==
    LazyRunning =>
       \A checkpoint \in saved :
          (/\ checkpoint.index <= token_index(LazyCtx)
           /\ token_index(LazyCtx) - checkpoint.index <= KeepHistory
           /\ LazyCtx.committed_index <= checkpoint.index) =>
             ~RestorePanics(LazyCtx, checkpoint)

\* C6 as amended: every checkpoint the context handed out whose index is at
\* most W/2 behind the highest index the cursor has reached so far, and which
\* no commit has passed, can be restored without the fatal error.
C6_RestorableBehindHighWater ==
    LazyRunning =>
       \A checkpoint \in saved :
          (/\ hwm - checkpoint.index <= KeepHistory
           /\ LazyCtx.committed_index <= checkpoint.index) =>
             ~RestorePanics(LazyCtx, checkpoint)

\* after pruning, restore went back to a checkpoint strictly behind the cursor
\* that was within W/2 of the highest index reached
C6_Witness ==
    /\ engine = "lazy" /\ parseCall.op = "restore"
    /\ parseCall.before.base_index > 0
    /\ Unwrap(parseCall.collected).index < token_index(parseCall.before)
    /\ hwm - Unwrap(parseCall.collected).index <= KeepHistory
    /\ ~CtxPanicked(parseCall.after)
    /\ token_index(parseCall.after) = Unwrap(parseCall.collected).index

RuleFailedPastWindow(i) ==
    \E m \in {try_parse(parser.rules[parseCall.tried[i].idx], parseCall.tried[i].context)} :
       /\ m.node = None
       /\ token_index(parseCall.tried[i].context) < m.ctx.base_index

\* C7: restore with checkpoint.index < base_index raises the backtrack
\* window error and leaves the cursor where it was; with checkpoint.index >=
\* base_index it makes token_index() equal to checkpoint.index.  In next_node
\* a rule that consumed past the retained window and failed ends the call
\* with that error: no later rule is tried and no node is returned, and every
\* rule that is tried sees the token index and current token of the call's start.
C7_RestoreFailsLoudly ==
    /\ (engine = "lazy" /\ parseCall.op = "restore") =>
          \A checkpoint \in {Unwrap(parseCall.collected)} :
             /\ checkpoint.index < parseCall.before.base_index =>
                   /\ parseCall.after.panicked = "LazyContext: Backtracking too far!"
                   /\ parseCall.after =
                         [parseCall.before EXCEPT !.panicked = parseCall.after.panicked]
             /\ checkpoint.index >= parseCall.before.base_index =>
                   /\ ~CtxPanicked(parseCall.after)
                   /\ token_index(parseCall.after) = checkpoint.index
    /\ (engine = "lazy" /\ parseCall.op = "next_node") =>
          \A i \in 1..Len(parseCall.tried) :
             /\ token_index(parseCall.tried[i].context) = token_index(parseCall.before)
             /\ LazyPeek(parseCall.tried[i].context).tok = LazyPeek(parseCall.before).tok
             /\ RuleFailedPastWindow(i) =>
                   /\ parseCall.after.panicked = "LazyContext: Backtracking too far!"
                   /\ parseCall.result = None
                   /\ i = Len(parseCall.tried)

\* next_node ended in the window error although a later rule was registered
C7_Witness ==
    /\ engine = "lazy" /\ parseCall.op = "next_node"
    /\ Len(parseCall.tried) = 1 /\ Len(parser.rules) = 2
    /\ RuleFailedPastWindow(1)
    /\ CtxPanicked(parseCall.after)

C8Step ==
    engine = "lazy" =>
       /\ parser'.context.committed_index >= LazyCtx.committed_index
       /\ parseCall'.op = "commit" =>
             parser'.context.committed_index =
                Max(LazyCtx.committed_index, token_index(LazyCtx))
       /\ parseCall'.op # "commit" =>
             parser'.context.committed_index = LazyCtx.committed_index

\* C8: in every step committed_index does not decrease; commit() sets it to
\* max(committed_index, token_index()) and peek_at, advance, is_eof,
\* checkpoint, restore and next_node leave it as it is.
C8_CommittedMonotone == [][C8Step]_vars

\* commit() raised committed_index above a value that an earlier commit had set
C8_Witness ==
    /\ engine = "lazy" /\ parseCall.op = "commit"
    /\ parseCall.before.committed_index > 0
    /\ parseCall.after.committed_index > parseCall.before.committed_index

\* the items of a context from absolute index `from` on: the rest of the
\* buffer, then what the source has not yielded yet
ItemsFrom(ctx, from) ==
    SubSeq(ctx.buffer \o ctx.iter, from - ctx.base_index + 1,
           Len(ctx.buffer) + Len(ctx.iter))

\* C19: after advance() or commit() the buffer starts at
\* max(previous base_index, committed_index, token_index() - window_size/2):
\* nothing below committed_index is kept, at most window_size/2 items are
\* kept behind the cursor, and the items at and ahead of the cursor are all
\* still there.
C19_PruneBounds ==
    (engine = "lazy" /\ parseCall.op \in {"advance", "commit"}) =>
        \A b \in {parseCall.before}, a \in {parseCall.after} :
            /\ a.base_index =
                  SetMax({b.base_index, a.committed_index,
                          token_index(a) - a.window_size \div 2})
            /\ a.base_index >= a.committed_index
            /\ a.cursor_offset <= a.window_size \div 2
            /\ a.cursor_offset <= Len(a.buffer)
            /\ token_index(a) >= token_index(b)
            /\ ItemsFrom(a, token_index(a)) = ItemsFrom(b, token_index(a))

\* a commit() that discards history the window alone would have kept
C19_Witness ==
    /\ engine = "lazy" /\ parseCall.op = "commit"
    /\ parseCall.after.base_index = parseCall.after.committed_index
    /\ parseCall.after.base_index > parseCall.before.base_index
    /\ parseCall.after.base_index >
          token_index(parseCall.after) - parseCall.after.window_size \div 2
    /\ ItemsFrom(parseCall.after, token_index(parseCall.after)) # <<>>

\* the item at absolute index i of the source, as far as the context still
\* knows it: what is buffered, then what the source has not yielded yet
WindowItem(ctx, i) ==
    IF i - ctx.base_index < Len(ctx.buffer) + Len(ctx.iter)
    THEN Some((ctx.buffer \o ctx.iter)[i - ctx.base_index + 1])
    ELSE None

\* C32: a LazyContext is a window onto the source: a call only moves the
\* start of the window forward, and from there on the buffered items followed
\* by the items the source still holds are the same sequence as before the
\* call, so every item is pulled once and stays at its index; advance at
\* token_index() = i returns the item at index i and moves the index by one,
\* or returns None at the end and moves nothing; peek_at(k) returns the item
\* at i + k; and peek_at, is_eof, checkpoint and commit, pruning included,
\* leave token_index() as it is.
C32_WindowOntoSource ==
    (engine = "lazy" /\ parseCall.op # "new" /\ ~CtxPanicked(parser.context)) =>
       \A b \in {parseCall.before}, a \in {parser.context} :
          /\ a.base_index >= b.base_index
          /\ ItemsFrom(a, a.base_index) = ItemsFrom(b, a.base_index)
          /\ a.base_index <= token_index(a)
          /\ parseCall.op = "advance" =>
                /\ parseCall.result = WindowItem(b, token_index(b))
                /\ token_index(a) = token_index(b)
                                    + (IF parseCall.result = None THEN 0 ELSE 1)
          /\ parseCall.op = "peek_at" =>
                /\ parseCall.result
                      = WindowItem(b, token_index(b) + Unwrap(parseCall.collected))
                /\ token_index(a) = token_index(b)
          /\ parseCall.op \in {"is_eof", "commit", "checkpoint"} =>
                token_index(a) = token_index(b)

\* advance returned the third item of the source, different from the second,
\* after the start of the buffer had been pruned away and a checkpoint taken
C32_Witness ==
    /\ engine = "lazy" /\ parseCall.op = "advance"
    /\ token_index(parseCall.before) = 2
    /\ parseCall.before.base_index = 1
    /\ parseCall.result # None
    /\ parseCall.result # WindowItem(parseCall.before, 1)
    /\ saved # {}

\* the context as commit() hands it to maybe_prune
CommitPending(ctx) ==
    [ctx EXCEPT !.committed_index = Max(@, token_index(ctx))]

\* C33: after every call on a LazyContext that does not raise the fatal
\* restore error, committed_index <= base_index <= token_index() and
\* cursor_offset <= buffer length; and the first loop of maybe_prune, which
\* only commit() makes turn, pops no more items than stand behind the cursor,
\* so it never pops from an empty buffer and leaves token_index() as it was.
C33_LazyIndexInvariant ==
    (engine = "lazy" /\ ~CtxPanicked(parser.context)) =>
       \A b \in {parseCall.before}, a \in {parser.context} :
          /\ a.committed_index <= a.base_index
          /\ a.base_index <= token_index(a)
          /\ a.cursor_offset <= Len(a.buffer)
          /\ parseCall.op = "commit" =>
                \E c \in {CommitPending(b)} :
                   /\ c.committed_index - c.base_index <= c.cursor_offset
                   /\ c.committed_index - c.base_index <= Len(c.buffer)
                   /\ token_index(a) = token_index(b)
          /\ parseCall.op = "advance" => b.committed_index <= b.base_index

\* a second commit() dropped the items behind the cursor while an item ahead
\* of the cursor stayed in the buffer
C33_Witness ==
    /\ engine = "lazy" /\ parseCall.op = "commit"
    /\ parseCall.before.committed_index >= 1
    /\ parseCall.before.cursor_offset >= 1
    /\ Len(parseCall.before.buffer) > parseCall.before.cursor_offset
    /\ parser.context.base_index > parseCall.before.base_index
    /\ parser.context.buffer # <<>>

\* peek, then advance, then advance again on a context
PeekThenAdvance(c) ==
    \E pk \in {CtxPeek(c)} : \E ad \in {CtxAdvance(pk.ctx)} :
       /\ CtxTokenIndex(pk.ctx) = CtxTokenIndex(c)
       /\ CtxPosition(pk.ctx) = CtxPosition(c)
       /\ ad.tok = pk.tok
       /\ pk.tok = None =>
             /\ CtxTokenIndex(ad.ctx) = CtxTokenIndex(c)
             /\ CtxPosition(ad.ctx) = CtxPosition(c)
             /\ CtxAdvance(ad.ctx) = ad

\* the items a LazyContext has yet to give, as a token vector and as tokens
\* pushed one by one
ItemsAhead(ctx) == ItemsFrom(ctx, token_index(ctx))
RECURSIVE PushedAll(_, _)
PushedAll(ctx, toks) ==
    IF toks = <<>> THEN ctx
    ELSE PushedAll(StreamingPushToken(ctx, Head(toks)), Tail(toks))

\* C38: a peek_at (peek is peek_at(0)) on a LazyContext changes neither
\* token_index() nor position(), though it may pull items into the buffer;
\* an advance() made right after a peek() that returned Some(t) returns that
\* t; and an advance() made when no item is left, or returning None, changes
\* neither token_index() nor position(), so that repeating it changes
\* nothing either.  The same holds of peek() and advance() on a
\* DefaultContext and on a StreamingParseContext holding the items ahead.
C38_PeekLeavesScanState ==
    [][engine = "lazy" =>
         /\ parseCall'.op = "peek_at" =>
               /\ token_index(parser'.context) = token_index(parser.context)
               /\ LazyPosition(parser'.context) = LazyPosition(parser.context)
         /\ (/\ parseCall'.op = "advance"
             /\ parseCall.op = "peek_at"
             /\ parseCall.collected = Some(0)
             /\ parseCall.result # None) =>
               parseCall'.result = parseCall.result
         /\ (/\ parseCall'.op = "advance"
             /\ \/ WindowItem(parser.context, token_index(parser.context)) = None
                \/ parseCall'.result = None) =>
               /\ parseCall'.result = None
               /\ token_index(parser'.context) = token_index(parser.context)
               /\ LazyPosition(parser'.context) = LazyPosition(parser.context)
         /\ PeekThenAdvance(parser.context)
         /\ PeekThenAdvance(DefaultContextNew(ItemsAhead(parser.context)))
         /\ PeekThenAdvance(PushedAll(StreamingParseContextNew,
                                      ItemsAhead(parser.context)))]_vars

\* advance() returned None after every item of the source had been stepped
\* over and dropped from the buffer
C38_Witness ==
    /\ engine = "lazy" /\ parseCall.op = "advance"
    /\ parseCall.result = None
    /\ token_index(parser.context) >= 2
    /\ parser.context.base_index >= 1
    /\ parser.context.iter = <<>>

(***************************************************************************)
(* common-framework: StreamingSignal, and the two ends of the streaming    *)
(* pipeline.  An end is either the Lexer / the Parser over a               *)
(* StreamingParseContext, or any other implementation of the traits, which *)
(* may answer a poll with any signal.                                      *)
(***************************************************************************)
RequestToken(n) == [type |-> "RequestToken", n |-> n]
SupplyToken(token) == [type |-> "SupplyToken", token |-> token]
TokenDelivered == [type |-> "TokenDelivered"]
Produced(ns) == [type |-> "Produced", nodes |-> ns]
NeedToken(n) == [type |-> "NeedToken", n |-> n]
Finished(ns) == [type |-> "Finished", nodes |-> ns]
Blocked(reason) == [type |-> "Blocked", reason |-> reason]
EndOfInput == [type |-> "EndOfInput"]
Abort(reason) == [type |-> "Abort", reason |-> reason]

\* a bug: a lexer that can give no token says the input has ended
LexerNextSignalEndsWhenStuck(l) ==
    Only({
        IF r.item # None
        THEN [signal |-> Some(SupplyToken(Unwrap(r.item))),
              lexer |-> [l EXCEPT !.context = r.context]]
        ELSE [signal |-> Some(EndOfInput), lexer |-> [l EXCEPT !.context = r.context]]
        : r \in {IteratorNext(l)}})

\* TokenProducer::poll_token and Outbound::next_signal for Lexer
LexerNextSignal(l) ==
    Only({
        IF r.item # None
        THEN [signal |-> Some(SupplyToken(Unwrap(r.item))),
              lexer |-> [l EXCEPT !.context = r.context]]
        ELSE IF LexIsEof(r.context)
        THEN [signal |-> Some(EndOfInput), lexer |-> [l EXCEPT !.context = r.context]]
        ELSE [signal |-> None, lexer |-> [l EXCEPT !.context = r.context]]
        : r \in {IteratorNext(l)}})

\* Inbound::handle_signal for Lexer: an Abort is logged, nothing changes
LexerHandleSignal(l, signal) == l

\* drain_ready_nodes: the node is pushed before the progress test
RECURSIVE DrainReadyNodes(_, _)
DrainReadyNodes(p, acc) ==
    Only({
        IF r.node = None
        THEN [nodes |-> acc, parser |-> [p EXCEPT !.context = r.context]]
        ELSE IF CtxTokenIndex(r.context) = before
        THEN [nodes |-> Append(acc, Unwrap(r.node)),
              parser |-> [p EXCEPT !.context = r.context]]
        ELSE DrainReadyNodes([p EXCEPT !.context = r.context],
                             Append(acc, Unwrap(r.node)))
        : before \in {CtxTokenIndex(p.context)}, r \in {NextNode(p)}})

\* TokenConsumer::push_token for Parser<StreamingParseContext>
ParserPushToken(p, token) ==
    DrainReadyNodes([p EXCEPT !.context = StreamingPushToken(@, token)], <<>>)

\* TokenConsumer::finish
ParserFinish(p) ==
    DrainReadyNodes([p EXCEPT !.context = StreamingMarkFinished(@)], <<>>)

\* a bug: Finished as soon as the context is marked finished, with tokens
\* still unconsumed
ParserNextSignalFinishedEarly(p) ==
    Only({
        IF d.nodes # <<>>
        THEN [signal |-> Some(Produced(d.nodes)), parser |-> d.parser]
        ELSE IF d.parser.context.finished
        THEN [signal |-> Some(Finished(<<>>)), parser |-> d.parser]
        ELSE [signal |-> Some(NeedToken(1)), parser |-> d.parser]
        : d \in {DrainReadyNodes(p, <<>>)}})

\* Outbound::next_signal for Parser<StreamingParseContext>
ParserNextSignal(p) ==
    Only({
        IF d.nodes # <<>>
        THEN [signal |-> Some(Produced(d.nodes)), parser |-> d.parser]
        ELSE IF StreamingIsEof(d.parser.context)
        THEN [signal |-> Some(Finished(<<>>)), parser |-> d.parser]
        ELSE [signal |-> Some(NeedToken(1)), parser |-> d.parser]
        : d \in {DrainReadyNodes(p, <<>>)}})

\* Inbound::handle_signal for Parser<StreamingParseContext>: the vector that
\* push_token returns is dropped
ParserHandleSignal(p, signal) ==
    IF signal.type = "SupplyToken" THEN ParserPushToken(p, signal.token).parser
    ELSE IF signal.type \in {"EndOfInput", "Abort"}
    THEN [p EXCEPT !.context = StreamingMarkFinished(@)]
    ELSE p

\* any other implementation of TokenProducer + Outbound + Inbound, and of
\* TokenConsumer + Outbound + Inbound
AnyProducer == [kind |-> "any producer"]
AnyConsumer == [kind |-> "any consumer"]
SomeToken == [kind |-> "A", position |-> PositionNew]
SomeNode(k) == [kind |-> k, tokens |-> <<>>]

ProducerSignals ==
    {None} \cup {Some(x) : x \in {SupplyToken(SomeToken), EndOfInput, Blocked("busy"),
                                  Abort("x"), TokenDelivered}}
ConsumerSignals ==
    {None} \cup {Some(x) : x \in {Produced(<<SomeNode("n1")>>), NeedToken(1),
                                  NeedToken(2), Finished(<<SomeNode("n2")>>), Blocked("busy"),
                                  Abort("x"), TokenDelivered}}

ProducerNextSignal(l) ==
    IF l = AnyProducer THEN {[signal |-> x, lexer |-> l] : x \in ProducerSignals}
    ELSE {LexerNextSignal(l)}
ProducerHandleSignal(l, signal) ==
    IF l = AnyProducer THEN l ELSE LexerHandleSignal(l, signal)

ConsumerNextSignal(p) ==
    IF p = AnyConsumer THEN {[signal |-> x, parser |-> p] : x \in ConsumerSignals}
    ELSE {ParserNextSignal(p)}
ConsumerHandleSignal(p, signal) ==
    IF p = AnyConsumer THEN p ELSE ParserHandleSignal(p, signal)
ConsumerFinish(p) ==
    IF p = AnyConsumer
    THEN {[nodes |-> ns, parser |-> p] : ns \in {<<>>, <<SomeNode("n3")>>}}
    ELSE {ParserFinish(p)}

(***************************************************************************)
(* pipeline-core: BatchPipeline::run and StreamingPipeline::run            *)
(***************************************************************************)
MaxTrace == 8

\* Lexer::tokenize: collect() over Iterator::next
RECURSIVE Tokenize(_, _)
Tokenize(l, acc) ==
    Only({IF r.item = None THEN acc
          ELSE Tokenize([l EXCEPT !.context = r.context], Append(acc, Unwrap(r.item)))
          : r \in {IteratorNext(l)}})

\* Parser::parse
RECURSIVE Parse(_, _)
Parse(p, acc) ==
    Only({IF t.stop THEN acc
          ELSE Parse([p EXCEPT !.context = t.context],
                     IF t.push # None THEN Append(acc, Unwrap(t.push)) ELSE acc)
          : t \in {ParseTurn(p)}})

\* BatchPipeline::run
BatchRun(input, lexer_rules, parser_rules) ==
    Parse(ParserNew(DefaultContextNew(
                        Tokenize(LexerNew(LexContextNew(input), lexer_rules), <<>>)),
                    parser_rules),
          <<>>)

\* entries of the trace: a signal an end returned from next_signal, a signal
\* the driver passed to handle_signal, and a call of finish() with its result
Emitted(side, signal) == [side |-> side, what |-> "emitted", signal |-> signal]
Received(side, signal) == [side |-> side, what |-> "received", signal |-> Some(signal)]
FinishCalled(ns) == [side |-> "parser", what |-> "finish", signal |-> Some(Finished(ns))]

\* a bug: on Abort or Blocked only the parser is told
AbortParserOnly(p, l, res, reason) ==
    [pc |-> "done", parser |-> ConsumerHandleSignal(p, Abort(reason)), lexer |-> l,
     results |-> res, sent |-> <<Received("parser", Abort(reason))>>]

\* the Blocked | Abort arms: Abort to the parser, then to the lexer, then break
AbortBoth(p, l, res, reason) ==
    [pc |-> "done",
     parser |-> ConsumerHandleSignal(p, Abort(reason)),
     lexer |-> ProducerHandleSignal(l, Abort(reason)),
     results |-> res,
     sent |-> <<Received("parser", Abort(reason)), Received("lexer", Abort(reason))>>]

\* a bug: EndOfInput is relayed and the loop left without calling finish()
EndWithoutFinish(p, l, res) ==
    {[pc |-> "done", parser |-> ConsumerHandleSignal(p, EndOfInput), lexer |-> l,
      results |-> res, sent |-> <<Received("parser", EndOfInput)>>]}

\* the EndOfInput arm and the `else` of `if let Some(token_signal)`
EndAndFinish(p, l, res) ==
    {[pc |-> "done", parser |-> f.parser, lexer |-> l, results |-> res \o f.nodes,
      sent |-> <<Received("parser", EndOfInput), FinishCalled(f.nodes)>>]
     : f \in ConsumerFinish(ConsumerHandleSignal(p, EndOfInput))}

\* a bug: the lexer is polled after Produced as well, without a request
ParserArmEager(signal, p, l, res) ==
    IF signal = None
    THEN [pc |-> "done", parser |-> p, lexer |-> l, results |-> res, sent |-> <<>>]
    ELSE IF Unwrap(signal).type = "Produced"
    THEN [pc |-> "poll_lexer", parser |-> p, lexer |-> l,
          results |-> res \o Unwrap(signal).nodes, sent |-> <<>>]
    ELSE IF Unwrap(signal).type = "NeedToken"
    THEN [pc |-> "poll_lexer",
          parser |-> p,
          lexer |-> ProducerHandleSignal(l, RequestToken(Unwrap(signal).n)),
          results |-> res,
          sent |-> <<Received("lexer", RequestToken(Unwrap(signal).n))>>]
    ELSE IF Unwrap(signal).type = "Finished"
    THEN [pc |-> "done", parser |-> p, lexer |-> l,
          results |-> res \o Unwrap(signal).nodes, sent |-> <<>>]
    ELSE IF Unwrap(signal).type \in {"Blocked", "Abort"}
    THEN AbortBoth(p, l, res, Unwrap(signal).reason)
    ELSE [pc |-> "poll_parser", parser |-> p, lexer |-> l, results |-> res,
          sent |-> <<>>]

\* the match on the parser's signal, up to the poll of the lexer
ParserArm(signal, p, l, res) ==
    IF signal = None
    THEN [pc |-> "done", parser |-> p, lexer |-> l, results |-> res, sent |-> <<>>]
    ELSE IF Unwrap(signal).type = "Produced"
    THEN [pc |-> "poll_parser", parser |-> p, lexer |-> l,
          results |-> res \o Unwrap(signal).nodes, sent |-> <<>>]
    ELSE IF Unwrap(signal).type = "NeedToken"
    THEN [pc |-> "poll_lexer",
          parser |-> p,
          lexer |-> ProducerHandleSignal(l, RequestToken(Unwrap(signal).n)),
          results |-> res,
          sent |-> <<Received("lexer", RequestToken(Unwrap(signal).n))>>]
    ELSE IF Unwrap(signal).type = "Finished"
    THEN [pc |-> "done", parser |-> p, lexer |-> l,
          results |-> res \o Unwrap(signal).nodes, sent |-> <<>>]
    ELSE IF Unwrap(signal).type \in {"Blocked", "Abort"}
    THEN AbortBoth(p, l, res, Unwrap(signal).reason)
    ELSE [pc |-> "poll_parser", parser |-> p, lexer |-> l, results |-> res,
          sent |-> <<>>]

\* a bug: a producer that gives no signal is taken for a failure
LexerArmAbortOnSilence(token_signal, p, l, res) ==
    IF token_signal = None THEN {AbortBoth(p, l, res, "no signal")}
    ELSE IF Unwrap(token_signal).type = "SupplyToken"
    THEN {[pc |-> "poll_parser",
           parser |-> ConsumerHandleSignal(p, Unwrap(token_signal)),
           lexer |-> l, results |-> res,
           sent |-> <<Received("parser", Unwrap(token_signal))>>]}
    ELSE IF Unwrap(token_signal).type = "EndOfInput" THEN EndAndFinish(p, l, res)
    ELSE IF Unwrap(token_signal).type \in {"Blocked", "Abort"}
    THEN {AbortBoth(p, l, res, Unwrap(token_signal).reason)}
    ELSE {[pc |-> "poll_parser", parser |-> p, lexer |-> l, results |-> res,
           sent |-> <<>>]}

\* the match on the lexer's answer inside the NeedToken arm
LexerArm(token_signal, p, l, res) ==
    IF token_signal = None THEN EndAndFinish(p, l, res)
    ELSE IF Unwrap(token_signal).type = "SupplyToken"
    THEN {[pc |-> "poll_parser",
           parser |-> ConsumerHandleSignal(p, Unwrap(token_signal)),
           lexer |-> l, results |-> res,
           sent |-> <<Received("parser", Unwrap(token_signal))>>]}
    ELSE IF Unwrap(token_signal).type = "EndOfInput" THEN EndAndFinish(p, l, res)
    ELSE IF Unwrap(token_signal).type \in {"Blocked", "Abort"}
    THEN {AbortBoth(p, l, res, Unwrap(token_signal).reason)}
    ELSE {[pc |-> "poll_parser", parser |-> p, lexer |-> l, results |-> res,
           sent |-> <<>>]}

PipeInputs == SeqsUpTo(Chars, MaxInput)
PipeLexRuleLists == {<<ARule>>, <<NormalRule>>, <<ARule, NormalRule>>}
PipeParseRuleLists ==
    {<<ItemRule>>, <<AnyRule>>, <<PairRule, AnyRule>>, <<StuckRule, ItemRule>>,
     <<EndRule, AnyRule>>}

InitPipeline ==
    /\ engine = "pipeline"
    /\ \E input \in PipeInputs, lexer_rules \in PipeLexRuleLists,
          parser_rules \in PipeParseRuleLists, own_lexer, own_parser \in BOOLEAN :
          /\ own_lexer => (input = <<>> /\ lexer_rules = <<ARule>>)
          /\ own_parser => parser_rules = <<ItemRule>>
          /\ registered = [input |-> input, lexer_rules |-> lexer_rules,
                           parser_rules |-> parser_rules]
          /\ lexer = IF own_lexer THEN AnyProducer
                     ELSE LexerNew(LexContextNew(input), lexer_rules)
          /\ parser = IF own_parser THEN AnyConsumer
                      ELSE ParserNew(StreamingParseContextNew, parser_rules)
    /\ pc = "poll_parser"
    /\ results = <<>>
    /\ trace = <<>>
    /\ tokens = <<>>
    /\ lexDone = FALSE
    /\ lexCall = LexCallNew(IdleLexer)
    /\ nodes = <<>>
    /\ parseDone = FALSE
    /\ parseCall = ParseCallNew(IdleParser)
    /\ IdleLazy

\* `while let Some(signal) = self.parser.next_signal()` and the match on it
PollParser ==
    /\ engine = "pipeline"
    /\ pc = "poll_parser"
    /\ Len(trace) < MaxTrace
    /\ \E o \in ConsumerNextSignal(parser) :
          \E step \in {ParserArm(o.signal, o.parser, lexer, results)} :
             /\ pc' = step.pc
             /\ parser' = step.parser
             /\ lexer' = step.lexer
             /\ results' = step.results
             /\ trace' = Append(trace, Emitted("parser", o.signal)) \o step.sent
    /\ UNCHANGED <<engine, registered, tokens, lexDone, lexCall, nodes, parseDone,
                   parseCall, lazyVars>>

\* `self.lexer.next_signal()` in the NeedToken arm and the match on it
PollLexer ==
    /\ engine = "pipeline"
    /\ pc = "poll_lexer"
    /\ \E o \in ProducerNextSignal(lexer) :
          \E step \in LexerArm(o.signal, parser, o.lexer, results) :
             /\ pc' = step.pc
             /\ parser' = step.parser
             /\ lexer' = step.lexer
             /\ results' = step.results
             /\ trace' = Append(trace, Emitted("lexer", o.signal)) \o step.sent
    /\ UNCHANGED <<engine, registered, tokens, lexDone, lexCall, nodes, parseDone,
                   parseCall, lazyVars>>

NextPipeline == PollParser \/ PollLexer

SpecPipeline == InitPipeline /\ [][NextPipeline]_vars

(***************************************************************************)
(* Claims on the pipelines (checked under SpecPipeline)                    *)
(***************************************************************************)
\* C4: when run() has returned with the Lexer and the Parser as its two
\* ends, its result is the node sequence that BatchPipeline::run returns for
\* the same input and the same rule sets.
C4_StreamingEqualsBatch ==
    (/\ engine = "pipeline" /\ pc = "done"
     /\ lexer # AnyProducer /\ parser # AnyConsumer) =>
        results = BatchRun(registered.input, registered.lexer_rules,
                           registered.parser_rules)

AbortAt(i) ==
    /\ trace[i].what = "emitted"
    /\ trace[i].signal # None
    /\ Unwrap(trace[i].signal).type \in {"Abort", "Blocked"}

AbortsSentTo(side) ==
    {j \in 1..Len(trace) : /\ trace[j].what = "received"
                           /\ trace[j].side = side
                           /\ Unwrap(trace[j].signal).type = "Abort"}

\* the nodes run() was given by the first n entries of the trace
RECURSIVE CollectedIn(_)
CollectedIn(n) ==
    IF n = 0 THEN <<>>
    ELSE IF /\ trace[n].side = "parser"
            /\ trace[n].what \in {"emitted", "finish"}
            /\ trace[n].signal # None
            /\ Unwrap(trace[n].signal).type \in {"Produced", "Finished"}
    THEN CollectedIn(n - 1) \o Unwrap(trace[n].signal).nodes
    ELSE CollectedIn(n - 1)

\* C5: once either end has emitted Abort or Blocked, the next two things
\* run() did were to pass Abort to the parser and Abort to the lexer; these
\* are the only Aborts it ever passed, nothing follows them, run() has
\* returned, and its result is exactly the nodes it had collected before.
C5_AbortPropagation ==
    engine = "pipeline" =>
       \A i \in 1..Len(trace) :
          AbortAt(i) =>
             /\ pc = "done"
             /\ Len(trace) = i + 2
             /\ AbortsSentTo("parser") = {i + 1}
             /\ AbortsSentTo("lexer") = {i + 2}
             /\ results = CollectedIn(i - 1)

\* the producer aborted after the consumer had produced nodes
C5_Witness ==
    /\ engine = "pipeline" /\ pc = "done" /\ results # <<>>
    /\ \E i \in 1..Len(trace) : AbortAt(i) /\ trace[i].side = "lexer"

\* the producer answered a token request with EndOfInput
EndOfInputAt(i) ==
    /\ trace[i].side = "lexer"
    /\ trace[i].what = "emitted"
    /\ trace[i].signal = Some(EndOfInput)

EndOfInputSentTo(side) ==
    {j \in 1..Len(trace) : /\ trace[j].what = "received"
                           /\ trace[j].side = side
                           /\ Unwrap(trace[j].signal).type = "EndOfInput"}

\* C20: once the producer has answered a token request with EndOfInput, the
\* next two things run() did were to pass EndOfInput to the consumer and to
\* call its finish(); that is the only EndOfInput it ever passed, neither
\* end was polled afterwards, run() has returned, and its result is the
\* nodes collected before followed by those finish() returned.
C20_EndOfInputRelay ==
    engine = "pipeline" =>
       \A i \in 1..Len(trace) :
          EndOfInputAt(i) =>
             /\ pc = "done"
             /\ Len(trace) = i + 2
             /\ i > 1 /\ trace[i - 1].what = "received" /\ trace[i - 1].side = "lexer"
             /\ Unwrap(trace[i - 1].signal).type = "RequestToken"
             /\ EndOfInputSentTo("parser") = {i + 1}
             /\ EndOfInputSentTo("lexer") = {}
             /\ trace[i + 2].what = "finish"
             /\ results = CollectedIn(i - 1) \o Unwrap(trace[i + 2].signal).nodes

\* the producer ended after nodes had been produced, and finish() gave more
C20_Witness ==
    /\ engine = "pipeline" /\ pc = "done"
    /\ \E i \in 1..Len(trace) :
          /\ EndOfInputAt(i)
          /\ CollectedIn(i - 1) # <<>>
          /\ Len(results) > Len(CollectedIn(i - 1))

\* entry i of the trace is a poll of the given end
PolledAt(i, side) == trace[i].what = "emitted" /\ trace[i].side = side

EmittedTypeAt(i, side, type) ==
    /\ PolledAt(i, side)
    /\ trace[i].signal # None
    /\ Unwrap(trace[i].signal).type = type

SupplyRelayedAt(i) ==
    /\ trace[i].what = "received" /\ trace[i].side = "parser"
    /\ Unwrap(trace[i].signal).type = "SupplyToken"

\* C21: the producer is polled only right after the consumer emitted
\* NeedToken(n) and run() passed RequestToken(n), the same n, to the
\* producer; a SupplyToken is relayed to the consumer only as the answer of
\* that poll, so at most one per NeedToken; and after a Produced the next
\* thing run() does is to poll the consumer again.
C21_Backpressure ==
    engine = "pipeline" =>
       \A i \in 1..Len(trace) :
          /\ PolledAt(i, "lexer") =>
                /\ i >= 3
                /\ EmittedTypeAt(i - 2, "parser", "NeedToken")
                /\ trace[i - 1] =
                      Received("lexer", RequestToken(Unwrap(trace[i - 2].signal).n))
          /\ SupplyRelayedAt(i) =>
                /\ i >= 4
                /\ PolledAt(i - 1, "lexer")
                /\ trace[i - 1].signal = trace[i].signal
                /\ i < Len(trace) => PolledAt(i + 1, "parser")
          /\ (trace[i].what = "received" /\ trace[i].side = "lexer"
              /\ Unwrap(trace[i].signal).type = "RequestToken") =>
                /\ i >= 2
                /\ EmittedTypeAt(i - 1, "parser", "NeedToken")
          /\ (EmittedTypeAt(i, "parser", "Produced") /\ i < Len(trace)) =>
                PolledAt(i + 1, "parser")

\* two tokens were relayed, one of them on a NeedToken(2), with a Produced
\* in between
C21_Witness ==
    /\ engine = "pipeline"
    /\ \E i, j, k \in 1..Len(trace) :
          /\ i < j /\ j < k
          /\ SupplyRelayedAt(i)
          /\ EmittedTypeAt(j, "parser", "Produced")
          /\ SupplyRelayedAt(k)
          /\ trace[k - 2] = Received("lexer", RequestToken(2))

\* run() drives the Lexer and the Parser themselves
OwnEnds == engine = "pipeline" /\ lexer # AnyProducer /\ parser # AnyConsumer

\* C29: run() terminates for every finite input and every rule set of the
\* consumer, a rule that returns a node without advancing included: no turn
\* of its loop leaves the parser, the lexer and the place in the loop as
\* they were, which the next turn would repeat, and so every turn after it.
C29_RunTerminates ==
    [][(OwnEnds /\ pc = "poll_parser") =>
          ~(pc' = "poll_parser" /\ parser' = parser /\ lexer' = lexer)]_vars

\* C30: drain_ready_nodes, and with it push_token, finish and the Produced
\* of next_signal, never returns a node of a rule that left the token index
\* unchanged: when next_node gives such a node where the parser stands, the
\* node is not among the drained ones.
C30_DrainSkipsZeroProgress ==
    (engine = "pipeline" /\ parser # AnyConsumer) =>
       \A r \in {NextNode(parser)} :
          (r.node # None /\ CtxTokenIndex(r.context) = CtxTokenIndex(parser.context)) =>
             \A k \in DOMAIN DrainReadyNodes(parser, <<>>).nodes :
                DrainReadyNodes(parser, <<>>).nodes[k] # Unwrap(r.node)

\* the nodes the parser's rule engine produces in one step of run(): in
\* the drain of next_signal, in the push_token of a delivered SupplyToken,
\* and in finish()
ProducedInStep ==
    IF pc = "poll_parser"
    THEN DrainReadyNodes(parser, <<>>).nodes
    ELSE IF /\ trace'[Len(trace')].what = "received"
            /\ trace'[Len(trace')].side = "parser"
            /\ Unwrap(trace'[Len(trace')].signal).type = "SupplyToken"
    THEN ParserPushToken(parser, Unwrap(trace'[Len(trace')].signal).token).nodes
    ELSE IF trace'[Len(trace')].what = "finish"
    THEN Unwrap(trace'[Len(trace')].signal).nodes
    ELSE <<>>

\* C31: no node is lost in the streaming path: the nodes the parser's rule
\* engine produces in a step of run(), those made at the moment a SupplyToken
\* is delivered included, are appended to the result of run() in the order
\* of production, once.
C31_NoNodeLost ==
    [][(engine = "pipeline" /\ parser # AnyConsumer /\ trace' # trace) =>
          results' = results \o ProducedInStep]_vars

\* the producer, polled for a token, returned no signal
SilenceAt(i) ==
    /\ trace[i].side = "lexer"
    /\ trace[i].what = "emitted"
    /\ trace[i].signal = None

\* C34: once the producer has answered a token request with no signal at
\* all, run() did what it does on EndOfInput: the next two things were to
\* pass EndOfInput to the consumer (a Parser is then marked finished) and to
\* call its finish(); no Abort was passed to either end, nothing was passed
\* to the producer, neither end was polled afterwards, run() has returned,
\* and its result is the nodes collected before followed by those finish()
\* returned.
C34_SilenceEndsInput ==
    engine = "pipeline" =>
       \A i \in 1..Len(trace) :
          SilenceAt(i) =>
             /\ pc = "done"
             /\ Len(trace) = i + 2
             /\ i > 1 /\ trace[i - 1].what = "received" /\ trace[i - 1].side = "lexer"
             /\ Unwrap(trace[i - 1].signal).type = "RequestToken"
             /\ trace[i + 1] = Received("parser", EndOfInput)
             /\ trace[i + 2].what = "finish"
             /\ AbortsSentTo("parser") = {}
             /\ AbortsSentTo("lexer") = {}
             /\ parser # AnyConsumer => parser.context.finished
             /\ results = CollectedIn(i - 1) \o Unwrap(trace[i + 2].signal).nodes

\* a Lexer none of whose rules matches the next character, with input left,
\* gave no signal after nodes had been produced, and finish() gave more
C34_Witness ==
    /\ engine = "pipeline" /\ pc = "done"
    /\ lexer # AnyProducer
    /\ ~LexIsEof(lexer.context)
    /\ \E i \in 1..Len(trace) :
          /\ SilenceAt(i)
          /\ CollectedIn(i - 1) # <<>>
          /\ Len(results) > Len(CollectedIn(i - 1))

(***************************************************************************)
(* SpecFeed: a push-fed context on its own.  A behaviour takes a           *)
(* StreamingLexContext or a StreamingParseContext and calls push, advance, *)
(* checkpoint, restore and mark_finished on it in any order; `trace`       *)
(* records the calls and `saved` the checkpoints taken.                    *)
(***************************************************************************)
MaxOps == 5

FeedChars == {"nl", "u2"}
\* tokens as a lexer makes them: the second one stands on the second line
FeedTokens == {[kind |-> "A", position |-> PositionNew],
               [kind |-> "A", position |-> [line |-> 2, column |-> 1, offset |-> 2]]}
FeedOp(name) == [op |-> name]

InitFeed ==
    /\ \/ /\ engine = "feed_lexer"
          /\ \E start \in {<<StreamingLexContextNew, <<>> >>}
                          \cup {<<StreamingLexContextFrom(v), <<FeedOp("from")>> >>
                                : v \in SeqsUpTo(FeedChars, 1)} :
                /\ lexer = [IdleLexer EXCEPT !.context = start[1]]
                /\ trace = start[2]
          /\ parser = IdleParser
       \/ /\ engine = "feed_parser"
          /\ lexer = IdleLexer
          /\ parser = [IdleParser EXCEPT !.context = StreamingParseContextNew]
          /\ trace = <<>>
       \/ /\ engine = "feed_cursor"
          /\ \E input \in SeqsUpTo(Chars, MaxInput) :
                lexer = [IdleLexer EXCEPT !.context = LexContextNew(input)]
          /\ parser = IdleParser
          /\ trace = <<>>
    /\ registered = <<>>
    /\ tokens = <<>>
    /\ lexDone = FALSE
    /\ lexCall = LexCallNew(IdleLexer)
    /\ nodes = <<>>
    /\ parseDone = FALSE
    /\ parseCall = ParseCallNew(IdleParser)
    /\ saved = {}
    /\ hwm = 0
    /\ pc = "idle"
    /\ results = <<>>

FeedRunning ==
    engine \in {"feed_lexer", "feed_parser", "feed_cursor"} /\ Len(trace) < MaxOps

FeedStep(name, lexer_context, parser_context) ==
    /\ lexer' = [lexer EXCEPT !.context = lexer_context]
    /\ parser' = [parser EXCEPT !.context = parser_context]
    /\ trace' = Append(trace, FeedOp(name))
    /\ UNCHANGED <<engine, registered, tokens, lexDone, lexCall, nodes, parseDone,
                   parseCall, hwm, pc>>

\* what a caller sees of the context when it takes a checkpoint
Observed(checkpoint) ==
    IF engine = "feed_lexer"
    THEN [checkpoint |-> checkpoint, index |-> lexer.context.current,
          position |-> lexer.context.position, peek |-> StreamingLexPeek(lexer.context)]
    ELSE IF engine = "feed_cursor"
    THEN [checkpoint |-> checkpoint, index |-> CursorOffset(lexer.context.cursor),
          position |-> lexer.context.cursor.position,
          peek |-> CursorPeek(lexer.context.cursor)]
    ELSE [checkpoint |-> checkpoint, index |-> parser.context.current,
          position |-> parser.context.position, peek |-> StreamingPeek(parser.context)]

\* push_char, push_str, push_token
FeedPush ==
    /\ FeedRunning
    /\ \/ /\ engine = "feed_lexer"
          /\ \/ \E ch \in FeedChars :
                   FeedStep("push", PushChar(lexer.context, ch), parser.context)
             \/ \E str \in SeqsUpTo(FeedChars, 2) :
                   FeedStep("push", PushStr(lexer.context, str), parser.context)
       \/ /\ engine = "feed_parser"
          /\ \E token \in FeedTokens :
                FeedStep("push", lexer.context, StreamingPushToken(parser.context, token))
    /\ UNCHANGED <<saved, results>>

FeedAdvance ==
    /\ FeedRunning
    /\ IF engine = "feed_lexer"
       THEN FeedStep("advance", StreamingLexAdvance(lexer.context).ctx, parser.context)
       ELSE IF engine = "feed_cursor"
       THEN FeedStep("advance",
                     [lexer.context EXCEPT !.cursor = CursorAdvance(@).ctx],
                     parser.context)
       ELSE FeedStep("advance", lexer.context, StreamingAdvance(parser.context).ctx)
    /\ UNCHANGED <<saved, results>>

FeedCheckpoint ==
    /\ FeedRunning
    /\ saved' = saved \cup {IF engine = "feed_lexer"
                            THEN StreamingLexCheckpoint(lexer.context)
                            ELSE IF engine = "feed_cursor"
                            THEN CursorCheckpoint(lexer.context.cursor)
                            ELSE StreamingCheckpoint(parser.context)}
    /\ saved' # saved
    /\ \E checkpoint \in saved' \ saved :
          results' = Append(results, Observed(checkpoint))
    /\ FeedStep("checkpoint", lexer.context, parser.context)

FeedRestore ==
    /\ FeedRunning
    /\ \E checkpoint \in saved :
          IF engine = "feed_lexer"
          THEN FeedStep("restore", StreamingLexRestore(lexer.context, checkpoint),
                        parser.context)
          ELSE IF engine = "feed_cursor"
          THEN FeedStep("restore",
                        [lexer.context EXCEPT !.cursor = CursorRestore(@, checkpoint)],
                        parser.context)
          ELSE FeedStep("restore", lexer.context,
                        StreamingRestore(parser.context, checkpoint))
    /\ UNCHANGED <<saved, results>>

FeedMarkFinished ==
    /\ FeedRunning
    /\ engine # "feed_cursor"
    /\ IF engine = "feed_lexer"
       THEN FeedStep("mark_finished", LexMarkFinished(lexer.context), parser.context)
       ELSE FeedStep("mark_finished", lexer.context,
                     StreamingMarkFinished(parser.context))
    /\ UNCHANGED <<saved, results>>

\* Cursor::reset
FeedReset ==
    /\ FeedRunning
    /\ engine = "feed_cursor"
    /\ FeedStep("reset", [lexer.context EXCEPT !.cursor = CursorReset(@)],
                parser.context)
    /\ UNCHANGED <<saved, results>>

NextFeed ==
    \/ FeedPush
    \/ FeedAdvance
    \/ FeedCheckpoint
    \/ FeedRestore
    \/ FeedMarkFinished
    \/ FeedReset

SpecFeed == InitFeed /\ [][NextFeed]_vars

(***************************************************************************)
(* Claims on the push-fed contexts (checked under SpecFeed)                *)
(***************************************************************************)
\* the context was declared complete (mark_finished, or built from a whole
\* string) and nothing was pushed since
MarkedSinceLastPush ==
    \E i \in 1..Len(trace) :
        /\ trace[i].op \in {"mark_finished", "from"}
        /\ \A j \in (i + 1)..Len(trace) : trace[j].op # "push"

\* some buffered item starts at or after the cursor
UnreadLexItem(ctx) ==
    \E i \in 1..Len(ctx.buffer) : ByteLen(SubSeq(ctx.buffer, 1, i - 1)) >= ctx.current
UnreadParseItem(ctx) == \E i \in 1..Len(ctx.tokens) : i - 1 >= ctx.current

\* C17: is_eof() of a push-fed context is true exactly when the context was
\* marked finished since the last push and no buffered item stands at or
\* after the cursor.
C17_EofIffFinishedAndDrained ==
    /\ engine = "feed_lexer" =>
          (StreamingLexIsEof(lexer.context)
              <=> (MarkedSinceLastPush /\ ~UnreadLexItem(lexer.context)))
    /\ engine = "feed_parser" =>
          (StreamingIsEof(parser.context)
              <=> (MarkedSinceLastPush /\ ~UnreadParseItem(parser.context)))

C17_Witness ==
    /\ engine = "feed_lexer"
    /\ StreamingLexIsEof(lexer.context)
    /\ lexer.context.buffer # <<>>
    /\ \E i, j, k \in 1..Len(trace) :
          /\ i < j /\ j < k
          /\ trace[i].op = "mark_finished"
          /\ trace[j].op = "push"
          /\ trace[k].op = "mark_finished"

\* the character context of the feed specification: a StreamingLexContext
\* or the Cursor of a DefaultContext
FeedCursor(ctx) == IF ctx.kind = "streaming" THEN ctx ELSE ctx.cursor
FeedPeek(ctx) ==
    IF ctx.kind = "streaming" THEN StreamingLexPeek(ctx) ELSE CursorPeek(ctx.cursor)

LastOp(log) == IF log = <<>> THEN "" ELSE log[Len(log)].op

\* advance over ch: the offset grows by the UTF-8 length of ch; a newline
\* starts the next line at column 1, any other character adds one column
AdvancedOver(before, after, ch) ==
    /\ after.current = before.current + len_utf8(ch)
    /\ after.position.offset = before.position.offset + len_utf8(ch)
    /\ IF ch = "nl"
       THEN after.position.line = before.position.line + 1
            /\ after.position.column = 1
       ELSE after.position.line = before.position.line
            /\ after.position.column = before.position.column + 1

C26Step ==
    engine \in {"feed_lexer", "feed_cursor"} =>
       \E before \in {FeedCursor(lexer.context)}, after \in {FeedCursor(lexer'.context)},
          peeked \in {FeedPeek(lexer.context)} :
          /\ (LastOp(trace') = "advance" /\ peeked # None) =>
                AdvancedOver(before, after, Unwrap(peeked))
          /\ (LastOp(trace') = "advance" /\ peeked = None) => after = before
          /\ after.position.offset = after.current
          /\ after.current < before.current => LastOp(trace') \in {"restore", "reset"}

\* C26: every successful advance of a Cursor or StreamingLexContext over a
\* character c adds the UTF-8 length of c to the byte offset and 1 to the
\* column, except that a newline adds 1 to the line and sets the column to
\* 1; position.offset equals the byte index after every operation; and the
\* index decreases only in restore and reset.
C26_PositionTracksAdvance == [][C26Step]_vars

\* a two-byte character and a newline were passed, and the context went back
C26_Witness ==
    /\ engine \in {"feed_lexer", "feed_cursor"}
    /\ \E i, j \in 1..Len(trace) :
          /\ i < j /\ trace[i].op = "advance" /\ trace[j].op = "advance"
    /\ LastOp(trace) \in {"restore", "reset"}
    /\ \E checkpoint \in saved :
          /\ checkpoint.position.line = 2
          /\ checkpoint.index = 3
          /\ checkpoint.index > FeedCursor(lexer.context).current

\* the cursor restored to the checkpoint shows what was observed when the
\* checkpoint was taken
RoundTrip(c, o) ==
    \E r \in {CursorRestore(c, o.checkpoint)} :
       /\ CursorOffset(r) = o.index
       /\ r.position = o.position
       /\ CursorPeek(r) = o.peek

\* C27: on a Cursor (the eager character context), restoring a checkpoint
\* brings back the index, the position (line, column, offset) and the next
\* peeked character seen when it was taken, from every state reached later;
\* of nested checkpoints the outer can be restored after the inner or
\* directly, and a checkpoint can be restored again and again.
C27_CheckpointRoundTrip ==
    engine = "feed_cursor" =>
       \A i \in 1..Len(results) :
          \E c \in {lexer.context.cursor} :
             /\ RoundTrip(c, results[i])
             /\ RoundTrip(CursorRestore(c, results[i].checkpoint), results[i])
             /\ \A k \in 1..Len(results) :
                   RoundTrip(CursorRestore(c, results[k].checkpoint), results[i])

\* two nested checkpoints were taken on different lines and the cursor was
\* restored twice
C27_Witness ==
    /\ engine = "feed_cursor"
    /\ Len(results) = 2
    /\ results[1].index < results[2].index
    /\ results[1].position.line < results[2].position.line
    /\ \E i, j \in 1..Len(trace) :
          i < j /\ trace[i].op = "restore" /\ trace[j].op = "restore"
    /\ CursorOffset(lexer.context.cursor) = results[1].index

\* C28: after a token context consumed a token that carries a position,
\* position() reports the position of the consumed token or of the token now
\* current, here for the advance of a StreamingParseContext.
C28_PositionFollowsTokens ==
    [][(/\ engine = "feed_parser"
        /\ LastOp(trace') = "advance"
        /\ parser'.context.current = parser.context.current + 1) =>
          \E consumed \in {parser.context.tokens[parser.context.current + 1]} :
             CtxPosition(parser'.context)
                \in {consumed.position}
                    \cup {Unwrap(next).position
                          : next \in {StreamingPeek(parser'.context)} \ {None}}]_vars

(***************************************************************************)
(* SpecFilter: the filtering producers of pipeline-demo and calc_parser,    *)
(* wrapped around a Lexer of the expression language or around a producer  *)
(* that plays a fixed script of signals.  Each call is recorded in `trace` *)
(* with the signals the inner producer returned during it.                  *)
(***************************************************************************)
MaxScript == 3
MaxCalls == 4

\* a producer that returns the signals of its script one by one, then None,
\* and keeps what it is handed
ScriptedProducer(script) == [kind |-> "scripted", script |-> script, received |-> <<>>]

InnerNextSignal(l) ==
    IF "script" \in DOMAIN l
    THEN IF l.script = <<>> THEN [signal |-> None, lexer |-> l]
         ELSE [signal |-> Head(l.script), lexer |-> [l EXCEPT !.script = Tail(l.script)]]
    ELSE LexerNextSignal(l)

InnerHandleSignal(l, signal) ==
    IF "script" \in DOMAIN l THEN [l EXCEPT !.received = Append(l.received, signal)]
    ELSE LexerHandleSignal(l, signal)

FilteringTokenProducer(inner) == [filter |-> "is_whitespace", inner |-> inner]
FilteringProducer(inner) == [filter |-> "filter_streaming_token", inner |-> inner]

\* a bug: the filter lets every token through
KeepsAll(w, token) == TRUE

\* !token.is_whitespace() of pipeline-demo; filter_streaming_token(token) is
\* Some of calc_parser, which drops Eof tokens too
Keeps(w, token) ==
    IF w.filter = "is_whitespace" THEN token.kind # "Whitespace"
    ELSE token.kind \notin {"Whitespace", "Eof"}

\* Outbound::next_signal of the wrapper: the while-let loop over the inner
\* producer.  `polled` collects what the inner producer returned.
RECURSIVE FilteringNextSignal(_, _)
FilteringNextSignal(w, polled) ==
    Only({
        IF r.signal = None
        THEN [signal |-> None, producer |-> [w EXCEPT !.inner = r.lexer],
              polled |-> Append(polled, r.signal)]
        ELSE IF Unwrap(r.signal).type = "SupplyToken"
                /\ ~Keeps(w, Unwrap(r.signal).token)
        THEN FilteringNextSignal([w EXCEPT !.inner = r.lexer], Append(polled, r.signal))
        ELSE [signal |-> r.signal, producer |-> [w EXCEPT !.inner = r.lexer],
              polled |-> Append(polled, r.signal)]
        : r \in {InnerNextSignal(w.inner)}})

\* Inbound::handle_signal of the wrapper
FilteringHandleSignal(w, signal) ==
    [w EXCEPT !.inner = InnerHandleSignal(w.inner, signal)]

ScriptSignals ==
    {None} \cup {Some(x) : x \in {SupplyToken(Tok("Whitespace")), SupplyToken(NumberTok(1)),
                                  SupplyToken(Tok("Eof")), EndOfInput, Blocked("busy")}}
FilterInputs == SeqsUpTo({"1", "+", " "}, MaxScript)
InboundSignals == {RequestToken(1), Abort("x")}

NextSignalCall(r) == [op |-> "next_signal", polled |-> r.polled, signal |-> r.signal]
HandleSignalCall(signal) == [op |-> "handle_signal", signal |-> Some(signal), polled |-> <<>>]

\* `registered` keeps the script the inner producer was built with
InitFilter ==
    /\ engine = "filter"
    /\ \E inner \in {ScriptedProducer(sc) : sc \in SeqsUpTo(ScriptSignals, MaxScript)}
                    \cup {LexerNew(LexContextNew(input), ExprLexerRules)
                          : input \in FilterInputs} :
          /\ lexer \in {FilteringTokenProducer(inner), FilteringProducer(inner)}
          /\ registered = IF "script" \in DOMAIN inner THEN inner.script ELSE <<>>
    /\ parser = IdleParser
    /\ tokens = <<>>
    /\ lexDone = FALSE
    /\ lexCall = LexCallNew(IdleLexer)
    /\ nodes = <<>>
    /\ parseDone = FALSE
    /\ parseCall = ParseCallNew(IdleParser)
    /\ saved = {}
    /\ hwm = 0
    /\ pc = "idle"
    /\ results = <<>>
    /\ trace = <<>>

FilterRunning == engine = "filter" /\ Len(trace) < MaxCalls

FilterNextSignal ==
    /\ FilterRunning
    /\ \E r \in {FilteringNextSignal(lexer, <<>>)} :
          /\ lexer' = r.producer
          /\ trace' = Append(trace, NextSignalCall(r))
    /\ UNCHANGED <<engine, registered, tokens, lexDone, lexCall, parser, nodes,
                   parseDone, parseCall, saved, hwm, pc, results>>

FilterHandleSignal ==
    /\ FilterRunning
    /\ \E signal \in InboundSignals :
          /\ lexer' = FilteringHandleSignal(lexer, signal)
          /\ trace' = Append(trace, HandleSignalCall(signal))
    /\ UNCHANGED <<engine, registered, tokens, lexDone, lexCall, parser, nodes,
                   parseDone, parseCall, saved, hwm, pc, results>>

NextFilter == FilterNextSignal \/ FilterHandleSignal

SpecFilter == InitFilter /\ [][NextFilter]_vars

\* a SupplyToken whose token the wrapper's filter drops
Dropped(w, signal) ==
    /\ signal # None
    /\ Unwrap(signal).type = "SupplyToken"
    /\ ~Keeps(w, Unwrap(signal).token)

RECURSIVE PolledIn(_)
PolledIn(calls) ==
    IF calls = <<>> THEN <<>>
    ELSE (IF Head(calls).op = "next_signal"
          THEN SelectSeq(Head(calls).polled, LAMBDA x : x # None) ELSE <<>>)
         \o PolledIn(Tail(calls))

HandedIn(calls) ==
    LET handled == SelectSeq(calls, LAMBDA c : c.op = "handle_signal")
    IN [i \in 1..Len(handled) |-> Unwrap(handled[i].signal)]

\* C22: each next_signal of the filtering wrapper returns what the inner
\* producer returned last, after polling past nothing but tokens its filter
\* drops; it never returns such a token; of a scripted inner producer nothing
\* is skipped or reordered; and handle_signal hands every signal to the
\* inner producer as it came.
C22_FilterTransparent ==
    engine = "filter" =>
       /\ \A i \in 1..Len(trace) :
             trace[i].op = "next_signal" =>
                /\ trace[i].polled # <<>>
                /\ trace[i].signal = trace[i].polled[Len(trace[i].polled)]
                /\ ~Dropped(lexer, trace[i].signal)
                /\ (trace[i].signal # None
                    /\ Unwrap(trace[i].signal).type = "SupplyToken") =>
                       Unwrap(trace[i].signal).token.kind # "Whitespace"
                /\ \A k \in 1..(Len(trace[i].polled) - 1) :
                      Dropped(lexer, trace[i].polled[k])
       /\ "script" \in DOMAIN lexer.inner =>
             /\ \E rest \in {SelectSeq(lexer.inner.script, LAMBDA x : x # None)} :
                   PolledIn(trace) \o rest = SelectSeq(registered, LAMBDA x : x # None)
             /\ lexer.inner.received = HandedIn(trace)

\* one call polled past a dropped token to a signal that is no token, another
\* returned a kept token, and a signal was handed in
C22_Witness ==
    /\ engine = "filter"
    /\ \E i, j, k \in 1..Len(trace) :
          /\ trace[i].op = "next_signal"
          /\ Len(trace[i].polled) >= 2
          /\ trace[i].signal # None
          /\ Unwrap(trace[i].signal).type # "SupplyToken"
          /\ trace[j].op = "next_signal"
          /\ trace[j].signal # None
          /\ Unwrap(trace[j].signal).type = "SupplyToken"
          /\ trace[k].op = "handle_signal"

(***************************************************************************)
(* SpecSignal: one end of the signal protocol on its own.  A caller polls  *)
(* a Lexer's Outbound side and passes it signals, or polls a streaming     *)
(* Parser, passes it signals and calls finish(), in any order; `trace`     *)
(* records every signal emitted and received.                              *)
(***************************************************************************)
MaxPolls == 4

SignalLexRuleLists ==
    PipeLexRuleLists \cup {<<BuggyRule, NormalRule>>, <<WordRule, NormalRule>>,
                           <<ARule, EofRule>>}
SignalTokens == {[kind |-> k, position |-> PositionNew] : k \in ParseTokenKinds}
LexerInbound == {RequestToken(2), Abort("x")}
ParserInbound ==
    {SupplyToken(t) : t \in SignalTokens} \cup {EndOfInput, Abort("x"), RequestToken(1)}

InitSignal ==
    /\ engine \in {"lexer_end", "parser_end"}
    /\ \E input \in PipeInputs, lexer_rules \in SignalLexRuleLists,
          parser_rules \in PipeParseRuleLists :
          /\ engine = "lexer_end" => parser_rules = <<ItemRule>>
          /\ engine = "parser_end" => (input = <<>> /\ lexer_rules = <<ARule>>)
          /\ registered = [input |-> input, lexer_rules |-> lexer_rules,
                           parser_rules |-> parser_rules]
          /\ lexer = LexerNew(LexContextNew(input), lexer_rules)
          /\ lexCall = LexCallNew(LexerNew(LexContextNew(input), lexer_rules))
          /\ parser = ParserNew(StreamingParseContextNew, parser_rules)
          /\ parseCall = ParseCallNew(ParserNew(StreamingParseContextNew, parser_rules))
    /\ pc = "idle"
    /\ results = <<>>
    /\ trace = <<>>
    /\ tokens = <<>>
    /\ lexDone = FALSE
    /\ nodes = <<>>
    /\ parseDone = FALSE
    /\ IdleLazy

\* lexer.next_signal()
LexerPolled ==
    /\ engine = "lexer_end"
    /\ Len(trace) < MaxPolls
    /\ \E o \in {LexerNextSignal(lexer)} :
          /\ lexer' = o.lexer
          /\ lexCall' = [op |-> "next_signal", before |-> lexer.context,
                         result |-> o.signal, after |-> o.lexer.context,
                         tried |-> <<>>, collected |-> Len(tokens), diag |-> ""]
          /\ trace' = Append(trace, Emitted("lexer", o.signal))
    /\ UNCHANGED <<engine, registered, tokens, lexDone, parseVars, lazyVars, pc, results>>

\* lexer.handle_signal(signal)
LexerHandled ==
    /\ engine = "lexer_end"
    /\ Len(trace) < MaxPolls
    /\ \E signal \in LexerInbound :
          /\ lexer' = LexerHandleSignal(lexer, signal)
          /\ lexCall' = [op |-> "handle_signal", before |-> lexer.context,
                         result |-> None,
                         after |-> LexerHandleSignal(lexer, signal).context,
                         tried |-> <<>>, collected |-> Len(tokens), diag |-> ""]
          /\ trace' = Append(trace, Received("lexer", signal))
    /\ UNCHANGED <<engine, registered, tokens, lexDone, parseVars, lazyVars, pc, results>>

\* parser.next_signal()
ParserPolled ==
    /\ engine = "parser_end"
    /\ Len(trace) < MaxPolls
    /\ \E o \in {ParserNextSignal(parser)} :
          /\ parser' = o.parser
          /\ parseCall' = [op |-> "next_signal", before |-> parser.context,
                           result |-> o.signal, after |-> o.parser.context,
                           tried |-> <<>>, collected |-> 0, diag |-> ""]
          /\ trace' = Append(trace, Emitted("parser", o.signal))
    /\ UNCHANGED <<engine, registered, nodes, parseDone, lexVars, lazyVars, pc, results>>

\* parser.handle_signal(signal)
ParserHandled ==
    /\ engine = "parser_end"
    /\ Len(trace) < MaxPolls
    /\ \E signal \in ParserInbound :
          /\ parser' = ParserHandleSignal(parser, signal)
          /\ parseCall' = [op |-> "handle_signal", before |-> parser.context,
                           result |-> None,
                           after |-> ParserHandleSignal(parser, signal).context,
                           tried |-> <<>>, collected |-> 0, diag |-> ""]
          /\ trace' = Append(trace, Received("parser", signal))
    /\ UNCHANGED <<engine, registered, nodes, parseDone, lexVars, lazyVars, pc, results>>

\* parser.finish()
ParserFinished ==
    /\ engine = "parser_end"
    /\ Len(trace) < MaxPolls
    /\ \E f \in {ParserFinish(parser)} :
          /\ parser' = f.parser
          /\ parseCall' = [op |-> "finish", before |-> parser.context,
                           result |-> None, after |-> f.parser.context,
                           tried |-> <<>>, collected |-> 0, diag |-> ""]
          /\ trace' = Append(trace, FinishCalled(f.nodes))
    /\ UNCHANGED <<engine, registered, nodes, parseDone, lexVars, lazyVars, pc, results>>

NextSignal ==
    LexerPolled \/ LexerHandled \/ ParserPolled \/ ParserHandled \/ ParserFinished

SpecSignal == InitSignal /\ [][NextSignal]_vars

\* the tokens the lexer supplied in the first n entries of the trace
RECURSIVE SuppliedIn(_)
SuppliedIn(n) ==
    IF n = 0 THEN <<>>
    ELSE IF /\ trace[n].what = "emitted"
            /\ trace[n].signal # None
            /\ Unwrap(trace[n].signal).type = "SupplyToken"
    THEN Append(SuppliedIn(n - 1), Unwrap(trace[n].signal).token)
    ELSE SuppliedIn(n - 1)

RegisteredLexer == LexerNew(LexContextNew(registered.input), registered.lexer_rules)

\* C35: polled on its own, a Lexer supplies the tokens of its input in
\* order: the tokens supplied so far followed by those still to come are the
\* tokens of the whole input, and a poll made while a token is to come
\* supplies exactly the first of them.  A poll made when none is to come
\* emits EndOfInput if the context is at end of input and no signal if it is
\* not; after an EndOfInput every later poll emits EndOfInput again.  The
\* lexer emits nothing but SupplyToken and EndOfInput, and a signal passed
\* to it (a RequestToken, an Abort) leaves it as it was.
C35_LexerOutbound ==
    engine = "lexer_end" =>
       /\ SuppliedIn(Len(trace)) \o Tokenize(lexer, <<>>) = Tokenize(RegisteredLexer, <<>>)
       /\ \A i \in 1..Len(trace) :
             trace[i].what = "emitted" =>
                /\ trace[i].signal # None =>
                      Unwrap(trace[i].signal).type \in {"SupplyToken", "EndOfInput"}
                /\ trace[i].signal = Some(EndOfInput) =>
                      \A j \in i..Len(trace) :
                         trace[j].what = "emitted" => trace[j].signal = Some(EndOfInput)
       /\ lexCall.op = "next_signal" =>
             \E rest \in {Tokenize(LexerAt(lexCall.before), <<>>)} :
                lexCall.result =
                   IF rest # <<>> THEN Some(SupplyToken(rest[1]))
                   ELSE IF LexIsEof(lexer.context) THEN Some(EndOfInput)
                   ELSE None
       /\ lexCall.op = "handle_signal" => lexer = LexerAt(lexCall.before)

\* a token was supplied, EndOfInput followed, a RequestToken was passed in,
\* and the next poll emitted EndOfInput again
C35_Witness ==
    /\ engine = "lexer_end" /\ Len(trace) = 4
    /\ SuppliedIn(1) # <<>>
    /\ trace[2] = Emitted("lexer", Some(EndOfInput))
    /\ trace[3] = Received("lexer", RequestToken(2))
    /\ trace[4] = Emitted("lexer", Some(EndOfInput))

\* EndOfInput or Abort was passed to the parser in the first n entries
EndReceivedIn(n) ==
    \E j \in 1..n : /\ trace[j].what = "received"
                    /\ Unwrap(trace[j].signal).type \in {"EndOfInput", "Abort"}

\* the parser was told of the end in the first n entries, by EndOfInput, by
\* Abort or by finish(), and no token has been passed to it since
RECURSIVE EndToldIn(_)
EndToldIn(n) ==
    IF n = 0 THEN FALSE
    ELSE IF trace[n].what = "finish" THEN TRUE
    ELSE IF trace[n].what = "received"
    THEN IF Unwrap(trace[n].signal).type = "SupplyToken" THEN FALSE
         ELSE IF Unwrap(trace[n].signal).type \in {"EndOfInput", "Abort"} THEN TRUE
         ELSE EndToldIn(n - 1)
    ELSE EndToldIn(n - 1)

\* what the last poll of the parser answered, given whether it had been told
\* of the end
ParserPollAnswer(told) ==
    (engine = "parser_end" /\ parseCall.op = "next_signal") =>
       \E d \in {DrainReadyNodes(ParserAt(parseCall.before), <<>>)},
          r \in {parseCall.result}, a \in {parser.context} :
          /\ r # None
          /\ Unwrap(r).type \in {"Produced", "Finished", "NeedToken"}
          /\ Unwrap(r).type = "Produced" => Unwrap(r).nodes # <<>>
          /\ d.nodes # <<>> => Unwrap(r) = Produced(d.nodes)
          /\ d.nodes = <<>> =>
                Unwrap(r) = IF a.finished /\ a.current >= Len(a.tokens)
                            THEN Finished(<<>>) ELSE NeedToken(1)
          /\ Unwrap(r).type = "Finished" =>
                /\ a.current >= Len(a.tokens)
                /\ a.finished
                /\ told

\* C36 as stated: a poll of the parser always returns a signal: Produced
\* with the drained nodes if draining yielded any, otherwise Finished when
\* the context is marked finished and every pushed token is consumed,
\* otherwise NeedToken(1); Finished is never returned while unconsumed
\* tokens remain or before EndOfInput or Abort was received.
C36_FinishedOnlyAfterEndReceived == ParserPollAnswer(EndReceivedIn(Len(trace) - 1))

\* C36, amended: as above, but Finished is never returned while unconsumed
\* tokens remain or before the parser was told of the end, be it by a
\* received EndOfInput or Abort or by a call of finish(), with no token
\* passed to it since.
C36_FinishedOnlyAfterEndTold == ParserPollAnswer(EndToldIn(Len(trace) - 1))

\* a token was passed in and consumed, finish() was called, and the next
\* poll returned Finished with no EndOfInput or Abort received
C36_Witness ==
    /\ engine = "parser_end" /\ Len(trace) = 3
    /\ trace[1].what = "received"
    /\ Unwrap(trace[1].signal).type = "SupplyToken"
    /\ trace[2].what = "finish"
    /\ trace[3] = Emitted("parser", Some(Finished(<<>>)))
    /\ parser.context.current = 1

====
